---- MODULE Spec2Model ----
(***************************************************************************)
(* pixelife: a tick-driven grid world (World), creatures that act on it    *)
(* (Creature) and the per-tick scheduler (Simulation).                     *)
(*                                                                         *)
(* Real-valued quantities (energy, rewards, gene values) are fixed-point   *)
(* integers in hundredths: 100 stands for 1.0.  Creature.size and all      *)
(* counters are plain integers.  The trait values used are chosen so that  *)
(* every product the code computes is exact in hundredths.                 *)
(***************************************************************************)
EXTENDS Integers, Sequences, FiniteSets, TLC

(* ---- resources.py: ResourceType ---------------------------------------- *)
EMPTY == 0
WALL == 1
FOOD == 2
PLANT == 3
SUNLIGHT == 4
CREATURE == 5

(* ---- brain.py: Action -------------------------------------------------- *)
MOVE_UP == 0
MOVE_DOWN == 1
MOVE_LEFT == 2
MOVE_RIGHT == 3
EAT == 4
REPRODUCE == 5
PHOTOSYNTHESIZE == 6
STAY == 7

ActionCount == 8

(* ---- config.py (not part of the sources; values scaled to a small world) *)
WORLD_WIDTH == 5
WORLD_HEIGHT == 5
MAX_CREATURES == 1
INITIAL_CREATURE_COUNT == 1
CREATURE_MAX_ENERGY == 10000
CREATURE_ENERGY_DECAY == 50
MOVEMENT_COST == 10
REPRODUCTION_COST == 3000
SUNLIGHT_INTENSITY == 1000

(* ---- bounds of the model ----------------------------------------------- *)
\* number of scheduler ticks explored
MaxTicks == 2
\* number of Food/Plant placements by update_resources explored in one run
MaxSpawn == 1

(* energy_value drawn for a new Food (random.uniform(10, 20)) and a new
   Plant (random.uniform(5, 15)) *)
FoodValues == {1500}
PlantValues == {600, 1200}

(* ---- fixed-point helpers ------------------------------------------------ *)
\* a * b for two values in hundredths
Mul(a, b) == (a * b) \div 100

(* ---- genetics.py / creature.py: cached traits of a chromosome ----------- *)
(* A chromosome is represented by the traits Creature._update_traits caches
   from it; size is int(gene), the others are in hundredths. *)
ProfileTable ==
  << [size |-> 1, metabolism |-> 60, energy_efficiency |-> 100,
      food_preference |-> 100, plant_preference |-> 50,
      sunlight_efficiency |-> 50, reproduction_threshold |-> 6000,
      offspring_energy |-> 4000, vision_range |-> 2],
     [size |-> 2, metabolism |-> 40, energy_efficiency |-> 50,
      food_preference |-> 0, plant_preference |-> 100,
      sunlight_efficiency |-> 20, reproduction_threshold |-> 9000,
      offspring_energy |-> 3000, vision_range |-> 3] >>

Profiles == DOMAIN ProfileTable
\* chromosomes Chromosome._initialize_genes can draw for a seed creature
SeedProfiles == {2}

Trait(c, name) == ProfileTable[c.prof][name]

(* ---- world.py: geometry -------------------------------------------------- *)
Cells == (0 .. WORLD_WIDTH - 1) \X (0 .. WORLD_HEIGHT - 1)
Interior == (1 .. WORLD_WIDTH - 2) \X (1 .. WORLD_HEIGHT - 2)
Border == Cells \ Interior
\* cells _spawn_initial_creatures samples: randint(2, width - 3)
SpawnRegion == (2 .. WORLD_WIDTH - 3) \X (2 .. WORLD_HEIGHT - 3)

in_bounds(x, y) == 0 <= x /\ x < WORLD_WIDTH /\ 0 <= y /\ y < WORLD_HEIGHT

is_empty(g, x, y) ==
  IF ~in_bounds(x, y) THEN FALSE ELSE g[<<x, y>>] = EMPTY

is_walkable_through_walls(g, x, y) ==
  IF ~in_bounds(x, y) THEN FALSE ELSE g[<<x, y>>] \in {EMPTY, WALL, FOOD, PLANT}

is_walkable(g, x, y) ==
  IF ~in_bounds(x, y) THEN FALSE ELSE g[<<x, y>>] \in {EMPTY, FOOD, PLANT}

get_cell_type(g, x, y) ==
  IF ~in_bounds(x, y) THEN WALL ELSE g[<<x, y>>]

(* ---- dictionaries keyed by position -------------------------------------- *)
Put(f, k, v) == [p \in DOMAIN f \cup {k} |-> IF p = k THEN v ELSE f[p]]
Del(f, k) == [p \in DOMAIN f \ {k} |-> f[p]]
EmptyMap == [p \in {} |-> 0]

\* list.remove(v): drops the first occurrence of v
RECURSIVE ListRemove(_, _)
ListRemove(s, v) ==
  IF s = << >> THEN << >>
  ELSE IF Head(s) = v THEN Tail(s)
  ELSE <<Head(s)>> \o ListRemove(Tail(s), v)

InList(s, v) == \E i \in 1 .. Len(s) : s[i] = v

(* ---- resources.py: records ------------------------------------------------ *)
NewWall == [type |-> WALL, energy_value |-> 0, age |-> 0, growth_stage |-> 0, max_growth |-> 0]
NewFood(ev) == [type |-> FOOD, energy_value |-> ev, age |-> 0, growth_stage |-> 0, max_growth |-> 0]
NewPlant(ev) == [type |-> PLANT, energy_value |-> ev, age |-> 0, growth_stage |-> 0, max_growth |-> 10]

\* Resource.update / Plant.update
ResourceUpdate(r) ==
  IF r.type = PLANT /\ r.growth_stage < r.max_growth
  THEN [r EXCEPT !.age = @ + 1, !.growth_stage = @ + 1,
                 !.energy_value = 500 + ((r.growth_stage + 1) * 1000) \div r.max_growth]
  ELSE [r EXCEPT !.age = @ + 1]

(* ---- world.py: operations on a world s ------------------------------------ *)
(* s is a record with the fields of World (grid, resources, creatures,
   all_creatures), the creature objects cr (by object reference), the class
   counter Creature.next_id and the Statistics fields. *)

_place_wall(s, x, y) ==
  IF in_bounds(x, y)
  THEN [s EXCEPT !.grid[<<x, y>>] = WALL, !.resources = Put(@, <<x, y>>, NewWall)]
  ELSE s

_place_food(s, x, y, ev) ==
  IF in_bounds(x, y) /\ is_empty(s.grid, x, y)
  THEN [s EXCEPT !.grid[<<x, y>>] = FOOD, !.resources = Put(@, <<x, y>>, NewFood(ev))]
  ELSE s

_place_plant(s, x, y, ev) ==
  IF in_bounds(x, y) /\ is_empty(s.grid, x, y)
  THEN [s EXCEPT !.grid[<<x, y>>] = PLANT, !.resources = Put(@, <<x, y>>, NewPlant(ev))]
  ELSE s

add_creature_unchecked(s, r) ==
  LET c == s.cr[r] IN
    [s |-> [s EXCEPT !.grid[<<c.x, c.y>>] = CREATURE,
                     !.creatures = Put(@, <<c.x, c.y>>, r),
                     !.all_creatures = Append(@, r)],
     ok |-> TRUE]

\* returns [s, ok]; r is the reference of the creature object
add_creature(s, r) ==
  LET c == s.cr[r] IN
    IF in_bounds(c.x, c.y) /\ is_empty(s.grid, c.x, c.y)
    THEN [s |-> [s EXCEPT !.grid[<<c.x, c.y>>] = CREATURE,
                          !.creatures = Put(@, <<c.x, c.y>>, r),
                          !.all_creatures = Append(@, r)],
          ok |-> TRUE]
    ELSE [s |-> s, ok |-> FALSE]

remove_creature_keeps_tag(s, r) ==
  LET c == s.cr[r] IN
    IF <<c.x, c.y>> \in DOMAIN s.creatures
    THEN [s EXCEPT !.creatures = Del(@, <<c.x, c.y>>),
                   !.all_creatures = IF InList(@, r) THEN ListRemove(@, r) ELSE @]
    ELSE s

remove_creature(s, r) ==
  LET c == s.cr[r] IN
    IF <<c.x, c.y>> \in DOMAIN s.creatures
    THEN [s EXCEPT !.grid[<<c.x, c.y>>] = EMPTY,
                   !.creatures = Del(@, <<c.x, c.y>>),
                   !.all_creatures = IF InList(@, r) THEN ListRemove(@, r) ELSE @]
    ELSE s

move_creature_clear_first(s, r, new_x, new_y) ==
  LET c == s.cr[r]
      old_pos == <<c.x, c.y>>
      s1 == IF old_pos \in DOMAIN s.creatures
            THEN [s EXCEPT !.grid[old_pos] = EMPTY, !.creatures = Del(@, old_pos)]
            ELSE s
  IN IF ~in_bounds(new_x, new_y) THEN [s |-> s1, ok |-> FALSE]
     ELSE IF ~is_walkable(s.grid, new_x, new_y) THEN [s |-> s1, ok |-> FALSE]
     ELSE [s |-> [s1 EXCEPT !.grid[<<new_x, new_y>>] = CREATURE,
                            !.creatures = Put(@, <<new_x, new_y>>, r)],
           ok |-> TRUE]

move_creature_keeps_old_key(s, r, new_x, new_y) ==
  IF ~in_bounds(new_x, new_y) THEN [s |-> s, ok |-> FALSE]
  ELSE IF ~is_walkable(s.grid, new_x, new_y) THEN [s |-> s, ok |-> FALSE]
  ELSE LET c == s.cr[r]
           old_pos == <<c.x, c.y>>
           s1 == IF old_pos \in DOMAIN s.creatures
                 THEN [s EXCEPT !.grid[old_pos] = EMPTY]
                 ELSE s
       IN [s |-> [s1 EXCEPT !.grid[<<new_x, new_y>>] = CREATURE,
                            !.creatures = Put(@, <<new_x, new_y>>, r)],
           ok |-> TRUE]

move_creature_leaves_old_tag(s, r, new_x, new_y) ==
  IF ~in_bounds(new_x, new_y) THEN [s |-> s, ok |-> FALSE]
  ELSE IF ~is_walkable(s.grid, new_x, new_y) THEN [s |-> s, ok |-> FALSE]
  ELSE LET c == s.cr[r]
           old_pos == <<c.x, c.y>>
           s1 == IF old_pos \in DOMAIN s.creatures
                 THEN [s EXCEPT !.creatures = Del(@, old_pos)]
                 ELSE s
       IN [s |-> [s1 EXCEPT !.grid[<<new_x, new_y>>] = CREATURE,
                            !.creatures = Put(@, <<new_x, new_y>>, r)],
           ok |-> TRUE]

\* returns [s, ok]
move_creature(s, r, new_x, new_y) ==
  IF ~in_bounds(new_x, new_y) THEN [s |-> s, ok |-> FALSE]
  ELSE IF ~is_walkable(s.grid, new_x, new_y) THEN [s |-> s, ok |-> FALSE]
  ELSE LET c == s.cr[r]
           old_pos == <<c.x, c.y>>
           s1 == IF old_pos \in DOMAIN s.creatures
                 THEN [s EXCEPT !.grid[old_pos] = EMPTY, !.creatures = Del(@, old_pos)]
                 ELSE s
       IN [s |-> [s1 EXCEPT !.grid[<<new_x, new_y>>] = CREATURE,
                            !.creatures = Put(@, <<new_x, new_y>>, r)],
           ok |-> TRUE]

consume_resource_always_taken(s, x, y, r) ==
  IF <<x, y>> \notin DOMAIN s.resources THEN [s |-> s, gain |-> 0]
  ELSE LET resource == s.resources[<<x, y>>]
           energy_gain ==
             IF resource.type = FOOD
             THEN Mul(resource.energy_value, Trait(s.cr[r], "food_preference"))
             ELSE IF resource.type = PLANT
             THEN Mul(resource.energy_value, Trait(s.cr[r], "plant_preference"))
             ELSE 0
       IN [s |-> [s EXCEPT !.resources = Del(@, <<x, y>>),
                           !.grid[<<x, y>>] = CREATURE],
           gain |-> energy_gain]

consume_resource_swapped(s, x, y, r) ==
  IF <<x, y>> \notin DOMAIN s.resources THEN [s |-> s, gain |-> 0]
  ELSE LET resource == s.resources[<<x, y>>]
           energy_gain ==
             IF resource.type = FOOD
             THEN Mul(resource.energy_value, Trait(s.cr[r], "plant_preference"))
             ELSE IF resource.type = PLANT
             THEN Mul(resource.energy_value, Trait(s.cr[r], "food_preference"))
             ELSE 0
       IN IF energy_gain > 0
          THEN [s |-> [s EXCEPT !.resources = Del(@, <<x, y>>),
                                !.grid[<<x, y>>] = CREATURE],
                gain |-> energy_gain]
          ELSE [s |-> s, gain |-> energy_gain]

consume_resource_keeps_record(s, x, y, r) ==
  IF <<x, y>> \notin DOMAIN s.resources THEN [s |-> s, gain |-> 0]
  ELSE LET resource == s.resources[<<x, y>>]
           energy_gain ==
             IF resource.type = FOOD
             THEN Mul(resource.energy_value, Trait(s.cr[r], "food_preference"))
             ELSE IF resource.type = PLANT
             THEN Mul(resource.energy_value, Trait(s.cr[r], "plant_preference"))
             ELSE 0
       IN IF energy_gain > 0
          THEN [s |-> [s EXCEPT !.grid[<<x, y>>] = CREATURE], gain |-> energy_gain]
          ELSE [s |-> s, gain |-> energy_gain]

\* returns [s, gain]; r is the consumer
consume_resource(s, x, y, r) ==
  IF <<x, y>> \notin DOMAIN s.resources THEN [s |-> s, gain |-> 0]
  ELSE LET resource == s.resources[<<x, y>>]
           energy_gain ==
             IF resource.type = FOOD
             THEN Mul(resource.energy_value, Trait(s.cr[r], "food_preference"))
             ELSE IF resource.type = PLANT
             THEN Mul(resource.energy_value, Trait(s.cr[r], "plant_preference"))
             ELSE 0
       IN IF energy_gain > 0
          THEN [s |-> [s EXCEPT !.resources = Del(@, <<x, y>>),
                                !.grid[<<x, y>>] = CREATURE],
                gain |-> energy_gain]
          ELSE [s |-> s, gain |-> energy_gain]

(* ---- creature.py ----------------------------------------------------------- *)
\* Creature.__init__: the object built at (x, y); the caller advances next_id
NewCreature(id, x, y, prof, energy) ==
  [id |-> id, x |-> x, y |-> y, alive |-> TRUE, energy |-> energy, age |-> 0,
   generation |-> 0, offspring_count |-> 0, food_eaten |-> 0, prof |-> prof]

\* the reference a newly allocated creature object gets
NewRef(s) == CHOOSE n \in 1 .. Cardinality(DOMAIN s.cr) + 1 : n \notin DOMAIN s.cr

\* perceive(): internal_state['can_reproduce']
can_reproduce(c) == c.energy >= Trait(c, "reproduction_threshold")

\* int(n / d) for d > 0: Python's int() cuts the fraction off, towards zero
IntOfQuotient(n, d) == IF n >= 0 THEN n \div d ELSE -((-n) \div d)

\* perceive(): [vision_data, internal_state] of creature r in world s
perceive(s, r) ==
  LET c == s.cr[r]
      vr == Trait(c, "vision_range")
      seen == {get_cell_type(s.grid, c.x + dx, c.y + dy) :
                 <<dx, dy>> \in {d \in (-vr .. vr) \X (-vr .. vr) :
                                  /\ d # <<0, 0>>
                                  /\ d[1] * d[1] + d[2] * d[2] <= vr * vr
                                  /\ in_bounds(c.x + d[1], c.y + d[2])}}
  IN [vision_data |-> [food_nearby |-> FOOD \in seen, plant_nearby |-> PLANT \in seen,
                       wall_nearby |-> WALL \in seen, creature_nearby |-> CREATURE \in seen],
      internal_state |-> [energy |-> c.energy, can_reproduce |-> can_reproduce(c)]]

\* Brain.get_state_representation; 20 is 2000 hundredths
get_state_representation(vision_data, internal_state) ==
  << IntOfQuotient(internal_state.energy, 2000),
     vision_data.food_nearby, vision_data.plant_nearby, vision_data.wall_nearby,
     vision_data.creature_nearby, internal_state.can_reproduce >>

\* the state tuple the scheduler builds for creature r in world s
StateOf(s, r) ==
  LET p == perceive(s, r) IN get_state_representation(p.vision_data, p.internal_state)

\* _get_valid_actions: the list of valid actions, in the order the code appends
_get_valid_actions_only_empty(s, r) ==
  LET c == s.cr[r]
      cell_type == get_cell_type(s.grid, c.x, c.y)
  IN (IF is_empty(s.grid, c.x, c.y - 1) THEN <<MOVE_UP>> ELSE << >>)
     \o (IF is_empty(s.grid, c.x, c.y + 1) THEN <<MOVE_DOWN>> ELSE << >>)
     \o (IF is_empty(s.grid, c.x - 1, c.y) THEN <<MOVE_LEFT>> ELSE << >>)
     \o (IF is_empty(s.grid, c.x + 1, c.y) THEN <<MOVE_RIGHT>> ELSE << >>)
     \o (IF cell_type \in {FOOD, PLANT} THEN <<EAT>> ELSE << >>)
     \o (IF can_reproduce(c) THEN <<REPRODUCE>> ELSE << >>)
     \o (IF Trait(c, "sunlight_efficiency") > 30 THEN <<PHOTOSYNTHESIZE>> ELSE << >>)
     \o <<STAY>>

_get_valid_actions_by_record(s, r) ==
  LET c == s.cr[r]
      pos == <<c.x, c.y>>
  IN (IF is_walkable(s.grid, c.x, c.y - 1) THEN <<MOVE_UP>> ELSE << >>)
     \o (IF is_walkable(s.grid, c.x, c.y + 1) THEN <<MOVE_DOWN>> ELSE << >>)
     \o (IF is_walkable(s.grid, c.x - 1, c.y) THEN <<MOVE_LEFT>> ELSE << >>)
     \o (IF is_walkable(s.grid, c.x + 1, c.y) THEN <<MOVE_RIGHT>> ELSE << >>)
     \o (IF pos \in DOMAIN s.resources /\ s.resources[pos].type \in {FOOD, PLANT}
         THEN <<EAT>> ELSE << >>)
     \o (IF can_reproduce(c) THEN <<REPRODUCE>> ELSE << >>)
     \o (IF Trait(c, "sunlight_efficiency") > 30 THEN <<PHOTOSYNTHESIZE>> ELSE << >>)
     \o <<STAY>>

_get_valid_actions(s, r) ==
  LET c == s.cr[r]
      cell_type == get_cell_type(s.grid, c.x, c.y)
  IN (IF is_walkable(s.grid, c.x, c.y - 1) THEN <<MOVE_UP>> ELSE << >>)
     \o (IF is_walkable(s.grid, c.x, c.y + 1) THEN <<MOVE_DOWN>> ELSE << >>)
     \o (IF is_walkable(s.grid, c.x - 1, c.y) THEN <<MOVE_LEFT>> ELSE << >>)
     \o (IF is_walkable(s.grid, c.x + 1, c.y) THEN <<MOVE_RIGHT>> ELSE << >>)
     \o (IF cell_type \in {FOOD, PLANT} THEN <<EAT>> ELSE << >>)
     \o (IF can_reproduce(c) THEN <<REPRODUCE>> ELSE << >>)
     \o (IF Trait(c, "sunlight_efficiency") > 30 THEN <<PHOTOSYNTHESIZE>> ELSE << >>)
     \o <<STAY>>

(* Brain.choose_action is epsilon-greedy: the exploring branch returns any
   member of valid_actions and the greedy branch one member of it, so the
   actions a decision can yield are the members of valid_actions. *)
choose_action(valid_actions) == {valid_actions[i] : i \in 1 .. Len(valid_actions)}

\* reproduce(): adjacent_positions before the shuffle
adjacent_positions(c) ==
  << <<c.x, c.y - 1>>, <<c.x, c.y + 1>>, <<c.x - 1, c.y>>, <<c.x + 1, c.y>> >>

\* the orders random.shuffle can leave a 4-element list in
Shuffles == Permutations(1 .. 4)
NoShuffle == [i \in 1 .. 4 |-> i]

\* index of the first position of the shuffled list that passes reproduce's test, 0 if none
RECURSIVE FirstFree(_, _, _, _)
FirstFree(g, adj, sh, i) ==
  IF i > 4 THEN 0
  ELSE LET p == adj[sh[i]]
       IN IF is_empty(g, p[1], p[2]) /\ in_bounds(p[1], p[2]) THEN sh[i]
          ELSE FirstFree(g, adj, sh, i + 1)

NoChild == NewCreature(-1, -1, -1, 1, 0)

reproduce_ungated(s, r, sh, offprof) ==
  LET c == s.cr[r]
      adj == adjacent_positions(c)
      k == FirstFree(s.grid, adj, sh, 1)
  IN IF k = 0 THEN [s |-> s, got |-> FALSE, child |-> NoChild]
     ELSE [s |-> [s EXCEPT !.next_id = @ + 1,
                           !.cr[r].energy = @ - REPRODUCTION_COST],
           got |-> TRUE,
           child |-> [NewCreature(s.next_id, adj[k][1], adj[k][2], offprof,
                                  Trait(c, "offspring_energy"))
                        EXCEPT !.generation = c.generation + 1]]

reproduce_pays_offspring_energy(s, r, sh, offprof) ==
  LET c == s.cr[r]
      adj == adjacent_positions(c)
      k == FirstFree(s.grid, adj, sh, 1)
  IN IF c.energy < Trait(c, "reproduction_threshold")
     THEN [s |-> s, got |-> FALSE, child |-> NoChild]
     ELSE IF k = 0 THEN [s |-> s, got |-> FALSE, child |-> NoChild]
     ELSE [s |-> [s EXCEPT !.next_id = @ + 1,
                           !.cr[r].energy = @ - Trait(c, "offspring_energy")],
           got |-> TRUE,
           child |-> [NewCreature(s.next_id, adj[k][1], adj[k][2], offprof,
                                  Trait(c, "offspring_energy"))
                        EXCEPT !.generation = c.generation + 1]]

reproduce_charges_first(s, r, sh, offprof) ==
  LET c == s.cr[r]
      adj == adjacent_positions(c)
      k == FirstFree(s.grid, adj, sh, 1)
      paid == [s EXCEPT !.cr[r].energy = @ - REPRODUCTION_COST]
  IN IF c.energy < Trait(c, "reproduction_threshold")
     THEN [s |-> s, got |-> FALSE, child |-> NoChild]
     ELSE IF k = 0 THEN [s |-> paid, got |-> FALSE, child |-> NoChild]
     ELSE [s |-> [paid EXCEPT !.next_id = @ + 1],
           got |-> TRUE,
           child |-> [NewCreature(s.next_id, adj[k][1], adj[k][2], offprof,
                                  Trait(c, "offspring_energy"))
                        EXCEPT !.generation = c.generation + 1]]

\* reproduce(): returns [s, got, child]; offprof is the mutated chromosome copy
reproduce(s, r, sh, offprof) ==
  LET c == s.cr[r]
      adj == adjacent_positions(c)
      k == FirstFree(s.grid, adj, sh, 1)
  IN IF c.energy < Trait(c, "reproduction_threshold")
     THEN [s |-> s, got |-> FALSE, child |-> NoChild]
     ELSE IF k = 0 THEN [s |-> s, got |-> FALSE, child |-> NoChild]
     ELSE [s |-> [s EXCEPT !.next_id = @ + 1,
                           !.cr[r].energy = @ - REPRODUCTION_COST],
           got |-> TRUE,
           child |-> [NewCreature(s.next_id, adj[k][1], adj[k][2], offprof,
                                  Trait(c, "offspring_energy"))
                        EXCEPT !.generation = c.generation + 1]]

\* target cell of a MOVE_* action
MoveTarget(c, action) ==
  IF action = MOVE_UP THEN <<c.x, c.y - 1>>
  ELSE IF action = MOVE_DOWN THEN <<c.x, c.y + 1>>
  ELSE IF action = MOVE_LEFT THEN <<c.x - 1, c.y>>
  ELSE <<c.x + 1, c.y>>

\* execute_action(): returns [s, reward, got, child]
execute_action_full_reward(s, r, action, sh, offprof) ==
  LET c == s.cr[r] IN
  IF action \in {MOVE_UP, MOVE_DOWN, MOVE_LEFT, MOVE_RIGHT}
  THEN LET t == MoveTarget(c, action)
           m == move_creature(s, r, t[1], t[2])
       IN IF m.ok
          THEN [s |-> [m.s EXCEPT !.cr[r].x = t[1], !.cr[r].y = t[2]],
                reward |-> -10 - MOVEMENT_COST * Trait(c, "size"),
                got |-> FALSE, child |-> NoChild]
          ELSE [s |-> m.s, reward |-> -10, got |-> FALSE, child |-> NoChild]
  ELSE IF action = EAT
  THEN LET e == consume_resource(s, c.x, c.y, r)
       IN IF e.gain > 0
          THEN [s |-> [e.s EXCEPT !.cr[r].energy = @ + Mul(e.gain, Trait(c, "energy_efficiency")),
                                  !.cr[r].food_eaten = @ + 1],
                reward |-> -10 + e.gain, got |-> FALSE, child |-> NoChild]
          ELSE [s |-> e.s, reward |-> -10, got |-> FALSE, child |-> NoChild]
  ELSE IF action = REPRODUCE
  THEN LET p == reproduce(s, r, sh, offprof)
       IN IF p.got
          THEN [s |-> [p.s EXCEPT !.cr[r].offspring_count = @ + 1],
                reward |-> -10 + 2000, got |-> TRUE, child |-> p.child]
          ELSE [s |-> p.s, reward |-> -10, got |-> FALSE, child |-> NoChild]
  ELSE IF action = PHOTOSYNTHESIZE
  THEN LET energy_gained == Mul(SUNLIGHT_INTENSITY, Trait(c, "sunlight_efficiency")) \div 10
       IN [s |-> [s EXCEPT !.cr[r].energy = @ + energy_gained],
           reward |-> -10 + energy_gained, got |-> FALSE, child |-> NoChild]
  ELSE IF action = STAY
  THEN [s |-> s, reward |-> -10 + 5, got |-> FALSE, child |-> NoChild]
  ELSE [s |-> s, reward |-> -10, got |-> FALSE, child |-> NoChild]

execute_action(s, r, action, sh, offprof) ==
  LET c == s.cr[r] IN
  IF action \in {MOVE_UP, MOVE_DOWN, MOVE_LEFT, MOVE_RIGHT}
  THEN LET t == MoveTarget(c, action)
           m == move_creature(s, r, t[1], t[2])
       IN IF m.ok
          THEN [s |-> [m.s EXCEPT !.cr[r].x = t[1], !.cr[r].y = t[2]],
                reward |-> -10 - MOVEMENT_COST * Trait(c, "size"),
                got |-> FALSE, child |-> NoChild]
          ELSE [s |-> m.s, reward |-> -10, got |-> FALSE, child |-> NoChild]
  ELSE IF action = EAT
  THEN LET e == consume_resource(s, c.x, c.y, r)
       IN IF e.gain > 0
          THEN [s |-> [e.s EXCEPT !.cr[r].energy = @ + Mul(e.gain, Trait(c, "energy_efficiency")),
                                  !.cr[r].food_eaten = @ + 1],
                reward |-> -10 + e.gain, got |-> FALSE, child |-> NoChild]
          ELSE [s |-> e.s, reward |-> -10, got |-> FALSE, child |-> NoChild]
  ELSE IF action = REPRODUCE
  THEN LET p == reproduce(s, r, sh, offprof)
       IN IF p.got
          THEN [s |-> [p.s EXCEPT !.cr[r].offspring_count = @ + 1],
                reward |-> -10 + 2000, got |-> TRUE, child |-> p.child]
          ELSE [s |-> p.s, reward |-> -10, got |-> FALSE, child |-> NoChild]
  ELSE IF action = PHOTOSYNTHESIZE
  THEN LET energy_gained == Mul(SUNLIGHT_INTENSITY, Trait(c, "sunlight_efficiency")) \div 10
       IN [s |-> [s EXCEPT !.cr[r].energy = @ + energy_gained],
           reward |-> -10 + energy_gained \div 2, got |-> FALSE, child |-> NoChild]
  ELSE IF action = STAY
  THEN [s |-> s, reward |-> -10 + 5, got |-> FALSE, child |-> NoChild]
  ELSE [s |-> s, reward |-> -10, got |-> FALSE, child |-> NoChild]

update_no_clamp(c) ==
  LET energy_cost == Mul(CREATURE_ENERGY_DECAY, Trait(c, "metabolism")) * Trait(c, "size")
      e == c.energy - energy_cost
  IN [c EXCEPT !.age = @ + 1,
               !.energy = e,
               !.alive = IF e <= 0 THEN FALSE ELSE @]

update_forgets_death(c) ==
  LET energy_cost == Mul(CREATURE_ENERGY_DECAY, Trait(c, "metabolism")) * Trait(c, "size")
      e == c.energy - energy_cost
  IN [c EXCEPT !.age = @ + 1,
               !.energy = IF e > CREATURE_MAX_ENERGY THEN CREATURE_MAX_ENERGY ELSE e]

\* Creature.update(): per-tick upkeep of one creature record
update(c) ==
  LET energy_cost == Mul(CREATURE_ENERGY_DECAY, Trait(c, "metabolism")) * Trait(c, "size")
      e == c.energy - energy_cost
  IN [c EXCEPT !.age = @ + 1,
               !.energy = IF e > CREATURE_MAX_ENERGY THEN CREATURE_MAX_ENERGY ELSE e,
               !.alive = IF e <= 0 THEN FALSE ELSE @]

(* ---- world.py: update_resources -------------------------------------------- *)
\* stands for "random.random() was not below the respawn rate"
NoCell == <<-1, -1>>

(* food_at / plant_at: the cell sampled for the new Food / Plant, or NoCell;
   fv / pv: the energy_value the new record draws *)
update_resources(s, food_at, fv, plant_at, pv) ==
  LET s1 == [s EXCEPT !.resources = [p \in DOMAIN @ |-> ResourceUpdate(@[p])]]
      s2 == IF food_at # NoCell /\ is_empty(s1.grid, food_at[1], food_at[2])
            THEN _place_food(s1, food_at[1], food_at[2], fv) ELSE s1
      s3 == IF plant_at # NoCell /\ is_empty(s2.grid, plant_at[1], plant_at[2])
            THEN _place_plant(s2, plant_at[1], plant_at[2], pv) ELSE s2
  IN s3

(* ---- statistics.py ----------------------------------------------------------- *)
ZeroStats == [ticks |-> 0, creature_count |-> 0, peak_population |-> 0,
              total_births |-> 0, total_deaths |-> 0]

\* Statistics.update(world)
StatisticsUpdate_counts_twice(s) ==
  LET n == Len(s.all_creatures)
  IN [s EXCEPT !.stats.ticks = @ + 2,
               !.stats.creature_count = n,
               !.stats.peak_population = IF n > @ THEN n ELSE @]

StatisticsUpdate(s) ==
  LET n == Len(s.all_creatures)
  IN [s EXCEPT !.stats.ticks = @ + 1,
               !.stats.creature_count = n,
               !.stats.peak_population = IF n > @ THEN n ELSE @]

(* ---- simulation.py ------------------------------------------------------------ *)
(* _spawn_initial_creatures: the worlds one round of attempts can leave.  A
   sampled cell that is empty gets a creature; the round places nothing only
   if every attempt samples a non-empty cell. *)
SpawnOne(s) ==
  LET free == {p \in SpawnRegion : is_empty(s.grid, p[1], p[2])}
      placed == {LET r == NewRef(s)
                     s1 == [s EXCEPT !.cr = Put(@, r, NewCreature(s.next_id, p[1], p[2], prof,
                                                                   CREATURE_MAX_ENERGY \div 2)),
                                     !.next_id = @ + 1]
                     a == add_creature(s1, r)
                 IN IF a.ok THEN [a.s EXCEPT !.stats.total_births = @ + 1]
                    ELSE [a.s EXCEPT !.cr = Del(@, r)]
                 : p \in free, prof \in SeedProfiles}
  IN IF free = SpawnRegion THEN placed ELSE placed \cup {s}

RECURSIVE SpawnInitial(_, _)
SpawnInitial(s, n) ==
  IF n = 0 THEN {s}
  ELSE UNION {SpawnInitial(s1, n - 1) : s1 \in SpawnOne(s)}

\* for creature in <list>: world.remove_creature(creature); total_deaths += 1
RECURSIVE RemoveAll(_, _)
RemoveAll_uncounted(s, list) ==
  IF list = << >> THEN s
  ELSE RemoveAll(remove_creature(s, Head(list)), Tail(list))

RemoveAll(s, list) ==
  IF list = << >> THEN s
  ELSE RemoveAll([remove_creature(s, Head(list)) EXCEPT !.stats.total_deaths = @ + 1],
                 Tail(list))

\* sorted(list, key=age, reverse=True): stable, oldest first
RECURSIVE InsertByAge(_, _, _)
InsertByAge(cr0, sorted, r) ==
  IF sorted = << >> THEN <<r>>
  ELSE IF cr0[Head(sorted)].age >= cr0[r].age
       THEN <<Head(sorted)>> \o InsertByAge(cr0, Tail(sorted), r)
       ELSE <<r>> \o sorted

RECURSIVE SortedByAge(_, _)
SortedByAge(cr0, list) ==
  IF list = << >> THEN << >>
  ELSE InsertByAge(cr0, SortedByAge(cr0, SubSeq(list, 1, Len(list) - 1)), list[Len(list)])

\* the sweep of dead creatures in Simulation.update
Sweep(s) ==
  RemoveAll(s, SelectSeq(s.all_creatures, LAMBDA r : ~s.cr[r].alive))

Evict_one_short(s) ==
  IF Len(s.all_creatures) > MAX_CREATURES
  THEN LET sorted_creatures == SortedByAge(s.cr, s.all_creatures)
           excess == Len(sorted_creatures) - MAX_CREATURES - 1
       IN RemoveAll(s, SubSeq(sorted_creatures, 1, excess))
  ELSE s

Evict_youngest(s) ==
  IF Len(s.all_creatures) > MAX_CREATURES
  THEN LET sorted_creatures == SortedByAge(s.cr, s.all_creatures)
           excess == Len(sorted_creatures) - MAX_CREATURES
       IN RemoveAll(s, SubSeq(sorted_creatures, Len(sorted_creatures) - excess + 1,
                              Len(sorted_creatures)))
  ELSE s

\* the population cap in Simulation.update
Evict(s) ==
  IF Len(s.all_creatures) > MAX_CREATURES
  THEN LET sorted_creatures == SortedByAge(s.cr, s.all_creatures)
           excess == Len(sorted_creatures) - MAX_CREATURES
       IN RemoveAll(s, SubSeq(sorted_creatures, 1, excess))
  ELSE s

\* creature objects no longer referenced by the world are dropped
Collect(s) ==
  LET live == {s.all_creatures[i] : i \in 1 .. Len(s.all_creatures)}
              \cup {s.creatures[p] : p \in DOMAIN s.creatures}
  IN [s EXCEPT !.cr = [r \in live |-> @[r]]]

(* ---- save_manager.py: a world as load_simulation rebuilds it -------------------- *)
(* Saved creatures: where they stand, their age, the id they were saved with
   and the energies tried for them; 0 stands for "not in the save". *)
LoadSlots == << [x |-> 1, y |-> 1, age |-> 1, id |-> 1, prof |-> 1, generation |-> 0,
                 energies |-> {0, 8000}, api_energies |-> {10000}],
                [x |-> 3, y |-> 1, age |-> 3, id |-> 2, prof |-> 1, generation |-> 2,
                 energies |-> {0, 20, 10000}, api_energies |-> {20, 30, 8000}] >>
LoadEnergies == {<<a, b>> : a \in LoadSlots[1].energies, b \in LoadSlots[2].energies}
ApiLoadEnergies == {<<a, b>> : a \in LoadSlots[1].api_energies, b \in LoadSlots[2].api_energies}
\* Food laid out by world generation
InitFoodSets == {{<<1, 2>>, <<3, 2>>}}
\* Food laid out so that no cell _spawn_initial_creatures samples is empty
CrowdedFoodSets == {{<<1, 2>>, <<2, 2>>}}
\* saves tried with that layout: no creature, or only the second one, starving
CrowdedLoadEnergies == {<<0, 0>>, <<0, 20>>}

\* cells the wall clusters of world generation cover
ClusterWalls == {<<3, 3>>}

\* World._initialize_world: border walls, wall clusters, then Food on empty cells
GeneratedWorld(foods) ==
  [grid |-> [p \in Cells |-> IF p \in Border \cup ClusterWalls THEN WALL
                             ELSE IF p \in foods THEN FOOD ELSE EMPTY],
   resources |-> [p \in Border \cup ClusterWalls \cup foods |->
                    IF p \in Border \cup ClusterWalls THEN NewWall ELSE NewFood(1500)],
   creatures |-> EmptyMap,
   all_creatures |-> << >>,
   cr |-> EmptyMap,
   next_id |-> 0,
   stats |-> ZeroStats]

(* _deserialize_creature + _deserialize_world for one saved creature; the saved
   grid carries the Creature tag of its cell and the saved statistics count it *)
LoadCreature(s, slot, energy) ==
  LET r == NewRef(s)
      c == [NewCreature(s.next_id, slot.x, slot.y, slot.prof, energy)
              EXCEPT !.id = slot.id, !.age = slot.age, !.generation = slot.generation]
  IN [s EXCEPT !.cr = Put(@, r, c),
               !.next_id = @ + 1,
               !.grid[<<slot.x, slot.y>>] = CREATURE,
               !.creatures = Put(@, <<slot.x, slot.y>>, r),
               !.all_creatures = Append(@, r),
               !.stats.creature_count = @ + 1,
               !.stats.peak_population = @ + 1,
               !.stats.total_births = @ + 1]

\* SaveManager._serialize_resource; extra holds growth_stage for a Plant only
_serialize_resource(resource) ==
  [type |-> resource.type, energy_value |-> resource.energy_value, age |-> resource.age,
   extra |-> IF resource.type = PLANT THEN <<resource.growth_stage>> ELSE << >>]

(* SaveManager._deserialize_resource: the record is rebuilt by the constructor
   of its class, Food(x, y) and Plant(x, y) drawing their energy_value (fv,
   pv), and then given the saved age. *)
_deserialize_resource(data, fv, pv) ==
  LET resource ==
        IF data.type = FOOD THEN NewFood(fv)
        ELSE IF data.type = PLANT
        THEN IF data.extra # << >> THEN [NewPlant(pv) EXCEPT !.growth_stage = data.extra[1]]
             ELSE NewPlant(pv)
        ELSE IF data.type = WALL THEN NewWall
        ELSE [NewWall EXCEPT !.type = data.type, !.energy_value = data.energy_value]
  IN [resource EXCEPT !.age = data.age]

(* save_simulation followed by load_simulation in the running process: the
   grid and the statistics come back as saved, every resource goes through
   _serialize_resource and _deserialize_resource, and every creature of
   all_creatures is rebuilt by _deserialize_creature (a new object, alive,
   with the saved id, position, energy and counters; Creature.next_id
   advances once per creature) and indexed at its position. *)
load_simulation(s, fv, pv) ==
  LET list == s.all_creatures
      refs == {list[i] : i \in 1 .. Len(list)}
      at(r) == <<s.cr[r].x, s.cr[r].y>>
      last(p) == CHOOSE i \in 1 .. Len(list) :
                   at(list[i]) = p /\ \A j \in i + 1 .. Len(list) : at(list[j]) # p
  IN [s EXCEPT !.resources = [p \in DOMAIN @ |->
                                _deserialize_resource(_serialize_resource(@[p]), fv, pv)],
               !.cr = [r \in refs |-> [s.cr[r] EXCEPT !.alive = TRUE]],
               !.creatures = [p \in {at(r) : r \in refs} |-> list[last(p)]],
               !.next_id = @ + Len(list)]

RECURSIVE LoadAll(_, _, _)
LoadAll(s, energies, i) ==
  IF i > Len(LoadSlots) THEN s
  ELSE LoadAll(IF energies[i] = 0 THEN s ELSE LoadCreature(s, LoadSlots[i], energies[i]),
               energies, i + 1)

(* ---- state --------------------------------------------------------------------- *)
VARIABLES
  grid,           \* World.grid: cell -> tag
  resources,      \* World.resources: position -> resource record
  creatures,      \* World.creatures: position -> creature reference
  all_creatures,  \* World.all_creatures: list of creature references
  cr,             \* the creature objects, by reference
  next_id,        \* Creature.next_id
  stats,          \* Statistics
  running,        \* Simulation.running
  phase,          \* "new": before Simulation.__init__; "idle": between ticks;
                  \* "turns": inside Simulation.update's creature loop;
                  \* "consumed": after a direct consume_resource call that gained energy;
                  \* "probed": after a direct call of a World method;
                  \* "loaded": after a save and load, before Simulation.__init__
  todo,           \* creatures_to_update not yet processed in this tick
  tick,           \* Simulation.update calls started in this run
  spawned,        \* respawn attempts made by update_resources in this run
  calls,          \* direct calls of World / Creature methods made in this run
  born,           \* the successful reproductions of the current tick
  ev,             \* what the last step did
  brain,          \* the Brain objects, by reference
  ndarray,        \* the numpy arrays the Q-tables hold, by reference
  chromosome,     \* the Chromosome objects, by reference
  gene,           \* the Gene objects, by reference
  traits          \* the traits cached by the creature that owns a chromosome

\* the objects of brain.py and genetics.py
mindvars == <<brain, ndarray, chromosome, gene, traits>>

\* the world, its creatures and the scheduler
worldvars == <<grid, resources, creatures, all_creatures, cr, next_id, stats,
               running, todo, tick, spawned, born>>

vars == <<grid, resources, creatures, all_creatures, cr, next_id, stats,
          running, phase, todo, tick, spawned, calls, born, ev, mindvars>>

S == [grid |-> grid, resources |-> resources, creatures |-> creatures,
      all_creatures |-> all_creatures, cr |-> cr, next_id |-> next_id,
      stats |-> stats]

Install(s) ==
  /\ grid' = s.grid
  /\ resources' = s.resources
  /\ creatures' = s.creatures
  /\ all_creatures' = s.all_creatures
  /\ cr' = s.cr
  /\ next_id' = s.next_id
  /\ stats' = s.stats

\* the world handed to Simulation.__init__: generated, or rebuilt from a save
InitWorlds(worlds, energysets) ==
  \E w \in worlds, energies \in energysets :
    LET s == LoadAll(w, energies, 1)
    IN /\ grid = s.grid
       /\ resources = s.resources
       /\ creatures = s.creatures
       /\ all_creatures = s.all_creatures
       /\ cr = s.cr
       /\ next_id = s.next_id
       /\ stats = s.stats
       /\ running = FALSE
       /\ phase = "new"
       /\ todo = {}
       /\ tick = 0
       /\ spawned = 0
       /\ calls = 0
       /\ born = {}
       /\ ev = [op |-> "init"]

InitFrom(foodsets, energysets) ==
  InitWorlds({GeneratedWorld(foods) : foods \in foodsets}, energysets)

(* The scheduler and the World methods never read a Q-table or a gene object
   (the creatures carry their cached traits), so these runs hold none. *)
NoMinds ==
  /\ brain = <<>>
  /\ ndarray = <<>>
  /\ chromosome = <<>>
  /\ gene = <<>>
  /\ traits = <<>>

Init ==
  /\ \/ InitFrom(InitFoodSets, LoadEnergies)
     \/ InitFrom(CrowdedFoodSets, CrowdedLoadEnergies)
  /\ NoMinds

\* what the steps record of a creature object that reproduce() returned
ChildView(c) == [id |-> c.id, x |-> c.x, y |-> c.y, energy |-> c.energy,
                 generation |-> c.generation, age |-> c.age, alive |-> c.alive]

\* the in-bounds Empty orthogonal neighbours of creature r
FreeNeighbours(s, r) ==
  LET adj == adjacent_positions(s.cr[r])
  IN {adj[i] : i \in {j \in 1 .. 4 : is_empty(s.grid, adj[j][1], adj[j][2])}}

\* Simulation.__init__
SimulationInit ==
  /\ phase = "new"
  /\ \E s \in SpawnInitial(S, INITIAL_CREATURE_COUNT) : Install(s)
  /\ running' = TRUE
  /\ phase' = "idle"
  /\ ev' = [op |-> "construct"]
  /\ UNCHANGED <<todo, tick, spawned, calls, born>>
  /\ UNCHANGED mindvars

\* Simulation.update, first part: update_resources and the shuffled snapshot
StartTick ==
  /\ phase = "idle"
  /\ calls = 0
  /\ tick < MaxTicks
  /\ \E kind \in {"none", "food", "plant"} :
       \E at \in (IF kind = "none" THEN {NoCell} ELSE Interior) :
         \E v \in (IF kind = "food" THEN FoodValues
                   ELSE IF kind = "plant" THEN PlantValues ELSE {0}) :
           /\ kind # "none" => spawned < MaxSpawn
           /\ Install(update_resources(S, IF kind = "food" THEN at ELSE NoCell, v,
                                          IF kind = "plant" THEN at ELSE NoCell, v))
           /\ spawned' = IF kind = "none" THEN spawned ELSE spawned + 1
           /\ ev' = [op |-> "resources", kind |-> kind, at |-> at,
                     was_empty |-> is_empty(grid, at[1], at[2])]
  /\ todo' = {all_creatures[i] : i \in 1 .. Len(all_creatures)}
  /\ tick' = tick + 1
  /\ phase' = "turns"
  /\ born' = {}
  /\ UNCHANGED <<running, calls>>
  /\ UNCHANGED mindvars

(* Simulation.update, loop body for one creature of the shuffled snapshot:
   decide_action, execute_action, Creature.update, then perceive and
   get_state_representation for the next state.  The learn call that follows
   only writes the creature's own Q-table, which this specification does not
   carry; the steps record the two states handed to it. *)
Turn ==
  /\ phase = "turns"
  /\ \E r \in todo :
       /\ todo' = todo \ {r}
       /\ IF ~cr[r].alive
          THEN /\ ev' = [op |-> "skip", r |-> r]
               /\ UNCHANGED <<grid, resources, creatures, all_creatures, cr, next_id,
                              stats, born>>
          ELSE \E action \in choose_action(_get_valid_actions(S, r)) :
                 \E sh \in (IF action = REPRODUCE THEN Shuffles ELSE {NoShuffle}) :
                   \E offprof \in (IF action = REPRODUCE THEN Profiles ELSE {1}) :
                     LET x == execute_action(S, r, action, sh, offprof)
                         s1 == [x.s EXCEPT !.cr[r] = update(@)]
                     IN /\ Install(s1)
                        /\ born' = IF x.got
                                   THEN born \cup {[r |-> r, cell |-> <<x.child.x, x.child.y>>,
                                                    free |-> FreeNeighbours(S, r)]}
                                   ELSE born
                        /\ ev' = [op |-> "turn", r |-> r, action |-> action,
                                  from |-> <<cr[r].x, cr[r].y>>,
                                  reward |-> x.reward, got |-> x.got,
                                  child |-> ChildView(x.child),
                                  state |-> StateOf(S, r),
                                  next_state |-> StateOf(s1, r)]
  /\ UNCHANGED <<running, phase, tick, spawned, calls>>
  /\ UNCHANGED mindvars

\* Simulation.update, last part: sweep, population cap, statistics
EndTick_stops_when_extinct ==
  /\ phase = "turns"
  /\ todo = {}
  /\ LET s1 == Sweep(S)
         s2 == Evict(s1)
     IN /\ Install(Collect(StatisticsUpdate(s2)))
        /\ running' = (s2.all_creatures # << >>)
        /\ ev' = [op |-> "tick",
                  swept |-> Len(all_creatures) - Len(s1.all_creatures),
                  evicted |-> Len(s1.all_creatures) - Len(s2.all_creatures)]
  /\ phase' = "idle"
  /\ UNCHANGED <<todo, tick, spawned, calls, born>>
  /\ UNCHANGED mindvars

EndTick ==
  /\ phase = "turns"
  /\ todo = {}
  /\ LET s1 == Sweep(S)
         s2 == Evict(s1)
     IN /\ Install(Collect(StatisticsUpdate(s2)))
        /\ ev' = [op |-> "tick",
                  swept |-> Len(all_creatures) - Len(s1.all_creatures),
                  evicted |-> Len(s1.all_creatures) - Len(s2.all_creatures)]
  /\ phase' = "idle"
  /\ UNCHANGED <<running, todo, tick, spawned, calls, born>>
  /\ UNCHANGED mindvars

\* energy_value drawn by Food(x, y) when a saved Food is rebuilt
ReloadFoodValues == {1500, 1800}

(* main.py, between two ticks: the 'save' command followed by the 'load'
   command.  The runs stop at the reloaded world; the runs of a scheduler
   constructed on a reloaded world are those that start from a saved world. *)
SaveLoad ==
  /\ phase = "idle"
  /\ \E fv \in ReloadFoodValues, pv \in PlantValues : Install(load_simulation(S, fv, pv))
  /\ phase' = "loaded"
  /\ ev' = [op |-> "reload"]
  /\ UNCHANGED <<running, todo, tick, spawned, calls, born>>
  /\ UNCHANGED mindvars

Next == SimulationInit \/ StartTick \/ Turn \/ EndTick \/ SaveLoad

Spec == Init /\ [][Next]_vars

\* the steps of the scheduler alone, without the save and load commands
NextTicks == SimulationInit \/ StartTick \/ Turn \/ EndTick

\* Simulation.update, the loop: the next creature of the snapshot is taken.
\* Among the steps of NextTicks these are exactly the Turn steps.
LoopAdvances ==
  /\ phase = "turns"
  /\ \E r \in todo : todo' = todo \ {r}

\* Simulation.update, the statements after the loop are reached and the call
\* returns.  Among the steps of NextTicks these are exactly the EndTick steps.
UpdateReturns ==
  /\ phase = "turns"
  /\ todo = {}
  /\ phase' = "idle"

(* Simulation.update is one sequential call: once it has started, the loop
   over the snapshot and the statements after it are executed without waiting
   for anything, so Turn and EndTick are weakly fair.  The fairness is stated
   on their projections to todo and phase, which are enabled in the same
   states and taken by the same steps.  Constructing the scheduler, calling
   update and the commands of main.py are decisions of the caller and carry
   no fairness. *)
SpecLive ==
  Init /\ [][NextTicks]_vars /\ WF_todo(LoopAdvances) /\ WF_phase(UpdateReturns)

(* ---- direct calls of the World and Creature methods ----------------------------- *)
\* direct execute_action calls explored in one run
MaxCalls == 2

\* arguments tried for a position: every cell, and one cell beyond each edge
ProbeCells == Cells \cup {<<-1, 1>>, <<WORLD_WIDTH, 1>>, <<1, -1>>, <<1, WORLD_HEIGHT>>}

Registered == {all_creatures[i] : i \in 1 .. Len(all_creatures)}

\* creature.execute_action(action, world), for any action
ApiExecute ==
  /\ phase = "idle"
  /\ calls < MaxCalls
  /\ \E r \in Registered, action \in 0 .. ActionCount - 1 :
       \E sh \in (IF action = REPRODUCE THEN Shuffles ELSE {NoShuffle}) :
         \E offprof \in (IF action = REPRODUCE THEN Profiles ELSE {1}) :
           LET x == execute_action(S, r, action, sh, offprof)
           IN /\ Install(x.s)
              /\ ev' = [op |-> "execute", r |-> r, action |-> action,
                        from |-> <<cr[r].x, cr[r].y>>,
                        reward |-> x.reward, got |-> x.got,
                        child |-> ChildView(x.child)]
  /\ calls' = calls + 1
  /\ UNCHANGED <<running, phase, todo, tick, spawned, born>>
  /\ UNCHANGED mindvars

\* creature.update(), called on its own
ApiUpdate ==
  /\ phase = "idle"
  /\ calls < MaxCalls
  /\ \E r \in Registered :
       /\ cr' = [cr EXCEPT ![r] = update(@)]
       /\ ev' = [op |-> "update", r |-> r]
  /\ calls' = calls + 1
  /\ UNCHANGED <<grid, resources, creatures, all_creatures, next_id, stats,
                 running, phase, todo, tick, spawned, born>>
  /\ UNCHANGED mindvars

\* world.add_creature(Creature(x, y))
ApiAdd ==
  /\ phase = "idle"
  /\ \E p \in ProbeCells, prof \in SeedProfiles :
       LET r == NewRef(S)
           s1 == [S EXCEPT !.cr = Put(@, r, NewCreature(next_id, p[1], p[2], prof,
                                                         CREATURE_MAX_ENERGY \div 2)),
                           !.next_id = @ + 1]
           a == add_creature(s1, r)
       IN /\ Install(IF a.ok THEN a.s ELSE Collect(a.s))
          /\ ev' = [op |-> "add", r |-> r, at |-> p, ok |-> a.ok]
  /\ phase' = "probed"
  /\ UNCHANGED <<running, todo, tick, spawned, calls, born>>
  /\ UNCHANGED mindvars

\* world.remove_creature(c)
ApiRemove ==
  /\ phase = "idle"
  /\ \E r \in Registered :
       /\ Install(Collect(remove_creature(S, r)))
       /\ ev' = [op |-> "remove", r |-> r, at |-> <<cr[r].x, cr[r].y>>]
  /\ phase' = "probed"
  /\ UNCHANGED <<running, todo, tick, spawned, calls, born>>
  /\ UNCHANGED mindvars

\* world.move_creature(c, x, y), called on its own
ApiMove ==
  /\ phase = "idle"
  /\ \E r \in Registered, p \in ProbeCells :
       LET m == move_creature(S, r, p[1], p[2])
       IN /\ Install(m.s)
          /\ ev' = [op |-> "move", r |-> r, at |-> p, ok |-> m.ok]
  /\ phase' = "probed"
  /\ UNCHANGED <<running, todo, tick, spawned, calls, born>>
  /\ UNCHANGED mindvars

(* world.consume_resource(x, y, c), called on its own; a call that gained
   energy may be followed by one more call for the same position *)
ApiConsume ==
  /\ phase \in {"idle", "consumed"}
  /\ \E r \in Registered, p \in ProbeCells :
       LET e == consume_resource(S, p[1], p[2], r)
       IN /\ phase = "consumed" => p = ev.at
          /\ Install(e.s)
          /\ ev' = [op |-> "consume", r |-> r, at |-> p, gain |-> e.gain,
                    again |-> phase = "consumed"]
          /\ phase' = IF phase = "idle" /\ e.gain > 0 THEN "consumed" ELSE "probed"
  /\ UNCHANGED <<running, todo, tick, spawned, calls, born>>
  /\ UNCHANGED mindvars

\* World._initialize_world, the Plant loop: a Plant on every sampled cell that is Empty
GeneratedPlants(w, plants, pv) ==
  LET placed == {p \in plants : w.grid[p] = EMPTY}
  IN [w EXCEPT !.grid = [p \in Cells |-> IF p \in placed THEN PLANT ELSE w.grid[p]],
               !.resources = [p \in DOMAIN w.resources \cup placed |->
                                IF p \in placed THEN NewPlant(pv) ELSE w.resources[p]]]

\* the generated worlds of the direct calls: Food as above and one Plant
InitPlants == {<<2, 1>>}
ApiWorlds == {GeneratedPlants(GeneratedWorld(foods), InitPlants, 600) : foods \in InitFoodSets}

InitApi == InitWorlds(ApiWorlds, ApiLoadEnergies) /\ NoMinds

NextApi ==
  SimulationInit \/ ApiExecute \/ ApiUpdate \/ ApiAdd \/ ApiRemove \/ ApiMove \/ ApiConsume

SpecApi == InitApi /\ [][NextApi]_vars

(* ---- brain.py: Brain ---------------------------------------------------------------- *)
(* A Brain object holds its hyperparameters and q_table, a dictionary from
   state tuples to numpy arrays.  The arrays are objects of their own: q_table
   maps a state to the reference of its array and ndarray maps a reference to
   the eight values, so that two tables holding the same array is a state the
   model can be in.  Q-values and rewards are in hundredths. *)

\* learn and choose_action calls explored in one run
MaxBrainCalls == 2

(* Every Q-value, reward and noise term explored is a multiple of QUnit, so
   that the halvings of MaxBrainCalls updates stay exact in hundredths. *)
QUnit == 4 ^ MaxBrainCalls

\* the Brain objects: the one under test and the one copy() makes of it
ParentBrain == 1
ChildBrain == 2

\* states as get_state_representation builds them
BrainStates == {<<2, TRUE, FALSE, TRUE, FALSE, FALSE>>,
                <<0, FALSE, FALSE, TRUE, FALSE, FALSE>>}

\* the arguments of Brain.__init__ explored: learning rate 0.5 or 1
Hyperparameters ==
  {[learning_rate |-> lr, discount_factor |-> 50, exploration_rate |-> 30] : lr \in {50, 100}}

\* range(Action.count())
ActionIndex == 0 .. ActionCount - 1

\* np.zeros(Action.count())
zeros == [a \in ActionIndex |-> 0]

\* the q_table entries of a saved brain: none, or one state with tied maxima
SavedQValues ==
  [a \in ActionIndex |-> IF a \in {MOVE_DOWN, EAT} THEN 3 * QUnit
                         ELSE IF a = PHOTOSYNTHESIZE THEN -QUnit ELSE 0]

SavedTables == {<<>>, [s \in {<<2, TRUE, FALSE, TRUE, FALSE, FALSE>>} |-> SavedQValues]}

\* the brain objects and the arrays they refer to
Minds == [brain |-> brain, ndarray |-> ndarray]

\* a new array object holding the values v
NewArray(m, v) ==
  LET a == Cardinality(DOMAIN m.ndarray) + 1
  IN [m |-> [m EXCEPT !.ndarray = (a :> v) @@ @], ref |-> a]

\* Brain.__init__; None is the empty tuple, a set last_action a 1-tuple
NewBrain(learning_rate, discount_factor, exploration_rate) ==
  [learning_rate |-> learning_rate, discount_factor |-> discount_factor,
   exploration_rate |-> exploration_rate, q_table |-> <<>>,
   last_state |-> <<>>, last_action |-> <<>>, last_reward |-> 0]

\* brain.q_table[state] = values: the entry refers to a new array
SetEntry(m, b, state, v) ==
  LET n == NewArray(m, v)
  IN [n.m EXCEPT !.brain[b].q_table =
        [s \in DOMAIN @ \cup {state} |-> IF s = state THEN n.ref ELSE @[s]]]

\* self.q_table[state] of the defaultdict: a missing key gets np.zeros
Lookup(m, b, state) ==
  IF state \in DOMAIN m.brain[b].q_table THEN m ELSE SetEntry(m, b, state, zeros)

\* save_manager: a brain rebuilt with its hyperparameters and saved q_table
RECURSIVE LoadEntries(_, _, _, _)
LoadEntries(m, b, table, states) ==
  IF states = {} THEN m
  ELSE LET s == CHOOSE x \in states : TRUE
       IN LoadEntries(SetEntry(m, b, s, table[s]), b, table, states \ {s})

LoadBrain(learning_rate, discount_factor, exploration_rate, table) ==
  LoadEntries([brain |-> (ParentBrain :> NewBrain(learning_rate, discount_factor,
                                                  exploration_rate)),
               ndarray |-> <<>>],
              ParentBrain, table, DOMAIN table)

(* max(valid_q_values, key=...) keeps the first of the largest items: best is
   replaced only by an item that is strictly larger. *)
RECURSIVE MaxByValue(_, _, _, _)
MaxByValue_keeps_last(q_values, valid_actions, i, best) ==
  IF i > Len(valid_actions) THEN best
  ELSE MaxByValue(q_values, valid_actions, i + 1,
                  IF q_values[valid_actions[i]] >= q_values[best]
                  THEN valid_actions[i] ELSE best)

MaxByValue(q_values, valid_actions, i, best) ==
  IF i > Len(valid_actions) THEN best
  ELSE MaxByValue(q_values, valid_actions, i + 1,
                  IF q_values[valid_actions[i]] > q_values[best]
                  THEN valid_actions[i] ELSE best)

\* np.max of an array
RECURSIVE ArrayMax(_, _)
ArrayMax(q_values, a) ==
  IF a = ActionCount - 1 THEN q_values[a]
  ELSE LET rest == ArrayMax(q_values, a + 1)
       IN IF q_values[a] >= rest THEN q_values[a] ELSE rest

(* Brain.choose_action; explore is the outcome of random.random() <
   exploration_rate and pick the index random.choice draws (the runs draw
   the first or the last). *)
Brain_choose_action(m, b, state, valid_actions, explore, pick) ==
  IF explore
  THEN [m |-> m, action |-> valid_actions[pick]]
  ELSE LET m1 == Lookup(m, b, state)
           q_values == m1.ndarray[m1.brain[b].q_table[state]]
       IN [m |-> m1,
           action |-> MaxByValue(q_values, valid_actions, 2, valid_actions[1])]

\* Brain.update_q_value
update_q_value_drops_current(m, b, state, action, reward, next_state) ==
  LET m1 == Lookup(m, b, state)
      at == m1.brain[b].q_table[state]
      current_q == m1.ndarray[at][action]
      m2 == Lookup(m1, b, next_state)
      max_next_q == ArrayMax(m2.ndarray[m2.brain[b].q_table[next_state]], 0)
      new_q == current_q + Mul(m.brain[b].learning_rate,
                               reward + Mul(m.brain[b].discount_factor, max_next_q))
  IN [m2 EXCEPT !.ndarray[at][action] = new_q]

update_q_value_peeks_next(m, b, state, action, reward, next_state) ==
  LET m1 == Lookup(m, b, state)
      at == m1.brain[b].q_table[state]
      current_q == m1.ndarray[at][action]
      m2 == Lookup(m1, b, next_state)
      max_next_q == ArrayMax(m2.ndarray[m2.brain[b].q_table[next_state]], 0)
      new_q == current_q + Mul(m.brain[b].learning_rate,
                               reward + Mul(m.brain[b].discount_factor, max_next_q)
                                 - current_q)
  IN [m1 EXCEPT !.ndarray[at][action] = new_q]

update_q_value(m, b, state, action, reward, next_state) ==
  LET m1 == Lookup(m, b, state)
      at == m1.brain[b].q_table[state]
      current_q == m1.ndarray[at][action]
      m2 == Lookup(m1, b, next_state)
      max_next_q == ArrayMax(m2.ndarray[m2.brain[b].q_table[next_state]], 0)
      new_q == current_q + Mul(m.brain[b].learning_rate,
                               reward + Mul(m.brain[b].discount_factor, max_next_q)
                                 - current_q)
  IN [m2 EXCEPT !.ndarray[at][action] = new_q]

\* Brain.learn
learn(m, b, state, action, reward, next_state) ==
  [update_q_value(m, b, state, action, reward, next_state)
     EXCEPT !.brain[b].last_state = state,
            !.brain[b].last_action = <<action>>,
            !.brain[b].last_reward = reward]

(* Brain.copy: a new Brain with the hyperparameters of b and, for every state
   of b's table, a new array q_values + noise[state]. *)
RECURSIVE CopyEntries(_, _, _, _, _)
CopyEntries(m, b, nb, noise, states) ==
  IF states = {} THEN m
  ELSE LET s == CHOOSE x \in states : TRUE
           q_values == m.ndarray[m.brain[b].q_table[s]]
       IN CopyEntries(SetEntry(m, nb, s, [a \in ActionIndex |-> q_values[a] + noise[s][a]]),
                      b, nb, noise, states \ {s})

Brain_copy_shares_arrays(m, b, nb, noise) ==
  [m EXCEPT !.brain = (nb :> [NewBrain(m.brain[b].learning_rate, m.brain[b].discount_factor,
                                       m.brain[b].exploration_rate)
                                EXCEPT !.q_table = m.brain[b].q_table]) @@ @]

Brain_copy(m, b, nb, noise) ==
  CopyEntries([m EXCEPT !.brain = (nb :> NewBrain(m.brain[b].learning_rate,
                                                  m.brain[b].discount_factor,
                                                  m.brain[b].exploration_rate)) @@ @],
              b, nb, noise, DOMAIN m.brain[b].q_table)

\* the draws of np.random.normal(0, 0.1, Action.count()) explored
NoiseVectors ==
  {zeros, [a \in ActionIndex |-> IF a = EAT THEN -QUnit ELSE IF a = STAY THEN QUnit ELSE 0]}

\* the valid_actions arguments explored; given = FALSE is the default None
ValidLists == {[given |-> FALSE, list |-> <<>>],
               [given |-> TRUE, list |-> <<MOVE_UP, MOVE_DOWN, EAT, STAY>>],
               [given |-> TRUE, list |-> <<STAY, PHOTOSYNTHESIZE, EAT, MOVE_DOWN>>]}

\* if valid_actions is None: valid_actions = list(range(Action.count()))
ValidActionsOf(valid_actions) ==
  IF valid_actions.given THEN valid_actions.list ELSE [i \in 1 .. ActionCount |-> i - 1]

LearnActions == {EAT, STAY}
Rewards == {0, 2 * QUnit}

InstallMinds(m) ==
  /\ brain' = m.brain
  /\ ndarray' = m.ndarray

\* a world without creatures, and one brain: new, or rebuilt from a save
InitBrain ==
  /\ InitWorlds({GeneratedWorld(foods) : foods \in InitFoodSets}, {<<0, 0>>})
  /\ \E hp \in Hyperparameters, table \in SavedTables :
       LET m == LoadBrain(hp.learning_rate, hp.discount_factor, hp.exploration_rate, table)
       IN brain = m.brain /\ ndarray = m.ndarray
  /\ chromosome = <<>>
  /\ gene = <<>>
  /\ traits = <<>>

\* brain.choose_action(state, valid_actions)
BrainChoose ==
  /\ calls < MaxBrainCalls
  /\ \E b \in DOMAIN brain, state \in BrainStates, valid_actions \in ValidLists,
        explore \in BOOLEAN :
       LET valid == ValidActionsOf(valid_actions)
       IN \E pick \in (IF explore THEN {1, Len(valid)} ELSE {1}) :
            LET c == Brain_choose_action(Minds, b, state, valid, explore, pick)
            IN /\ InstallMinds(c.m)
               /\ ev' = [op |-> "choose", b |-> b, state |-> state, valid |-> valid,
                         explore |-> explore, action |-> c.action,
                         seen |-> state \in DOMAIN brain[b].q_table]
  /\ calls' = calls + 1
  /\ UNCHANGED <<worldvars, phase, chromosome, gene, traits>>

\* brain.learn(state, action, reward, next_state)
BrainLearn ==
  /\ calls < MaxBrainCalls
  /\ \E b \in DOMAIN brain, state \in BrainStates, action \in LearnActions,
        reward \in Rewards, next_state \in BrainStates :
       /\ InstallMinds(learn(Minds, b, state, action, reward, next_state))
       /\ ev' = [op |-> "learn", b |-> b, state |-> state, action |-> action,
                 reward |-> reward, next_state |-> next_state,
                 seen |-> state \in DOMAIN brain[b].q_table,
                 next_seen |-> next_state \in DOMAIN brain[b].q_table]
  /\ calls' = calls + 1
  /\ UNCHANGED <<worldvars, phase, chromosome, gene, traits>>

\* brain.copy(), as reproduce() calls it for the offspring
BrainCopy ==
  /\ ChildBrain \notin DOMAIN brain
  /\ \E noise \in [DOMAIN brain[ParentBrain].q_table -> NoiseVectors] :
       InstallMinds(Brain_copy(Minds, ParentBrain, ChildBrain, noise))
  /\ ev' = [op |-> "copy", b |-> ParentBrain, child |-> ChildBrain]
  /\ UNCHANGED <<worldvars, phase, calls, chromosome, gene, traits>>

NextBrain == BrainChoose \/ BrainLearn \/ BrainCopy

SpecBrain == InitBrain /\ [][NextBrain]_vars

(* ---- genetics.py: Gene, Chromosome ---------------------------------------------------- *)
(* Gene objects are kept by reference: chromosome maps a Chromosome object to
   its genes dictionary (gene name -> Gene reference) and gene maps a reference
   to the Gene's fields, so that two chromosomes holding the same Gene is a
   state the model can be in.  The reference of a Gene is the pair of the
   chromosome it was made for and its name.  Gene values are in hundredths. *)

\* Chromosome.mutate calls explored in one run
MaxGeneCalls == 2

\* the Chromosome objects: a creature's own and the one copy() makes of it
ParentChromosome == 1
ChildChromosome == 2

(* Chromosome._initialize_genes: the bounds of each gene and two of the draws
   of its initial value, one inside the initial range and one at its edge. *)
GeneTable ==
  [size |-> [min_val |-> 100, max_val |-> 500, draws |-> <<200, 100>>],
   speed |-> [min_val |-> 10, max_val |-> 300, draws |-> <<100, 50>>],
   vision_range |-> [min_val |-> 200, max_val |-> 1000, draws |-> <<500, 300>>],
   metabolism |-> [min_val |-> 10, max_val |-> 100, draws |-> <<50, 30>>],
   energy_efficiency |-> [min_val |-> 30, max_val |-> 100, draws |-> <<70, 90>>],
   food_preference |-> [min_val |-> 0, max_val |-> 100, draws |-> <<50, 0>>],
   plant_preference |-> [min_val |-> 0, max_val |-> 100, draws |-> <<50, 95>>],
   sunlight_efficiency |-> [min_val |-> 0, max_val |-> 100, draws |-> <<50, 5>>],
   reproduction_threshold |-> [min_val |-> 5000, max_val |-> 10000, draws |-> <<7500, 9000>>],
   offspring_energy |-> [min_val |-> 2000, max_val |-> 6000, draws |-> <<4000, 5000>>],
   color_r |-> [min_val |-> 5000, max_val |-> 25500, draws |-> <<15000, 5000>>],
   color_g |-> [min_val |-> 5000, max_val |-> 25500, draws |-> <<15000, 25500>>],
   color_b |-> [min_val |-> 5000, max_val |-> 25500, draws |-> <<15000, 20000>>]]

GeneNames == DOMAIN GeneTable

\* Gene.__init__
NewGene(name, value, min_val, max_val) ==
  [name |-> name, value |-> value, min_val |-> min_val, max_val |-> max_val]

\* np.clip
clip(x, lo, hi) == IF x < lo THEN lo ELSE IF x > hi THEN hi ELSE x

(* Gene.mutate; hit is the outcome of random.random() < mutation_rate and k
   the draw of random.gauss(0, sigma) in units of sigma = (max - min) * 0.1. *)
Gene_mutate_unclipped(g, hit, k) ==
  IF hit
  THEN LET mutation == k * ((g.max_val - g.min_val) \div 10)
       IN [g EXCEPT !.value = g.value + mutation]
  ELSE g

Gene_mutate(g, hit, k) ==
  IF hit
  THEN LET mutation == k * ((g.max_val - g.min_val) \div 10)
       IN [g EXCEPT !.value = clip(g.value + mutation, g.min_val, g.max_val)]
  ELSE g

\* Gene.copy
Gene_copy(g) == NewGene(g.name, g.value, g.min_val, g.max_val)

\* the chromosome objects and the gene objects they refer to
Genome == [chromosome |-> chromosome, gene |-> gene]

\* Chromosome.__init__ and _initialize_genes, every gene taking its d-th draw
_initialize_genes(g, c, d) ==
  [chromosome |-> (c :> [n \in GeneNames |-> <<c, n>>]) @@ g.chromosome,
   gene |-> [r \in DOMAIN g.gene \cup ({c} \X GeneNames) |->
               IF r[1] = c
               THEN NewGene(r[2], GeneTable[r[2]].draws[d],
                            GeneTable[r[2]].min_val, GeneTable[r[2]].max_val)
               ELSE g.gene[r]]]

(* Chromosome.mutate: Gene.mutate on every gene of the dictionary; plan gives
   each name its hit and draw.  Returns the count of genes mutated. *)
Chromosome_mutate(g, c, plan) ==
  LET mine == {g.chromosome[c][n] : n \in GeneNames}
      name(r) == CHOOSE n \in GeneNames : g.chromosome[c][n] = r
  IN [g |-> [g EXCEPT !.gene =
               [r \in DOMAIN g.gene |->
                  IF r \in mine
                  THEN Gene_mutate(g.gene[r], plan[name(r)].hit, plan[name(r)].k)
                  ELSE g.gene[r]]],
      mutations |-> Cardinality({n \in GeneNames : plan[n].hit})]

(* Chromosome.copy: a new Chromosome whose genes are replaced, name by name,
   by gene.copy() of the source's.  The genes Chromosome() draws first are
   dropped at once and are not kept here. *)
Chromosome_copy_shares_genes(g, c, nc) ==
  [g EXCEPT !.chromosome = (nc :> g.chromosome[c]) @@ @]

Chromosome_copy(g, c, nc) ==
  [chromosome |-> (nc :> [n \in GeneNames |-> <<nc, n>>]) @@ g.chromosome,
   gene |-> [r \in DOMAIN g.gene \cup ({nc} \X GeneNames) |->
               IF r[1] = nc THEN Gene_copy(g.gene[g.chromosome[c][r[2]]])
               ELSE g.gene[r]]]

\* Creature._cache_genetic_traits: int() of size, vision_range and the colours
_cache_genetic_traits(g, c) ==
  [n \in GeneNames |->
     LET v == g.gene[g.chromosome[c][n]].value
     IN IF n \in {"size", "vision_range", "color_r", "color_g", "color_b"}
        THEN IntOfQuotient(v, 100) ELSE v]

\* the mutation_rate arguments explored: 0, 0.1 and 1
MutationRates == {0, 10, 100}

\* the draws of random.gauss explored, in units of sigma
GaussDraws == {-2, 2}

(* The outcomes of one Chromosome.mutate call explored: random.random() is
   never below rate 0 and always below rate 1; in between, the runs hit no
   gene or one gene out of four. *)
Plans(rate) ==
  IF rate = 0 THEN {[n \in GeneNames |-> [hit |-> FALSE, k |-> 0]]}
  ELSE IF rate = 100
       THEN {[n \in GeneNames |-> [hit |-> TRUE, k |-> k]] : k \in GaussDraws}
       ELSE {[n \in GeneNames |-> [hit |-> FALSE, k |-> 0]]}
            \cup {[n \in GeneNames |-> [hit |-> n = m, k |-> k]] :
                    m \in {"size", "metabolism", "plant_preference", "color_g"},
                    k \in GaussDraws}

InstallGenes(g) ==
  /\ chromosome' = g.chromosome
  /\ gene' = g.gene

\* a world without creatures, and the chromosome of one creature with its
\* traits cached: new, or rebuilt from a save with the values it was saved with
InitGenes ==
  /\ InitWorlds({GeneratedWorld(foods) : foods \in InitFoodSets}, {<<0, 0>>})
  /\ \E d \in {1, 2} :
       LET g == _initialize_genes([chromosome |-> <<>>, gene |-> <<>>], ParentChromosome, d)
       IN /\ chromosome = g.chromosome
          /\ gene = g.gene
          /\ traits = (ParentChromosome :> _cache_genetic_traits(g, ParentChromosome))
  /\ brain = <<>>
  /\ ndarray = <<>>

\* chromosome.mutate(rate)
GeneMutate ==
  /\ calls < MaxGeneCalls
  /\ \E c \in DOMAIN chromosome, rate \in MutationRates :
       \E plan \in Plans(rate) :
         LET x == Chromosome_mutate(Genome, c, plan)
         IN /\ InstallGenes(x.g)
            /\ ev' = [op |-> "mutate", c |-> c, rate |-> rate, mutations |-> x.mutations]
  /\ calls' = calls + 1
  /\ UNCHANGED <<worldvars, phase, brain, ndarray, traits>>

\* self.chromosome.copy(), as reproduce() calls it for the offspring
GeneCopy ==
  /\ ChildChromosome \notin DOMAIN chromosome
  /\ InstallGenes(Chromosome_copy(Genome, ParentChromosome, ChildChromosome))
  /\ ev' = [op |-> "copy", c |-> ParentChromosome, child |-> ChildChromosome]
  /\ UNCHANGED <<worldvars, phase, calls, brain, ndarray, traits>>

\* Creature.__init__ of the offspring: the traits of its chromosome are cached
GeneCache ==
  /\ ChildChromosome \in DOMAIN chromosome
  /\ ChildChromosome \notin DOMAIN traits
  /\ traits' = (ChildChromosome :> _cache_genetic_traits(Genome, ChildChromosome)) @@ traits
  /\ ev' = [op |-> "cache", c |-> ChildChromosome]
  /\ UNCHANGED <<worldvars, phase, calls, brain, ndarray, chromosome, gene>>

NextGenes == GeneMutate \/ GeneCopy \/ GeneCache

SpecGenes == InitGenes /\ [][NextGenes]_vars

(* ---- properties ------------------------------------------------------------------- *)
MoveActions == {MOVE_UP, MOVE_DOWN, MOVE_LEFT, MOVE_RIGHT}

\* the cell of creature object r
Pos(r) == <<cr[r].x, cr[r].y>>

HasResource(p) == p \in DOMAIN resources
HasCreature(p) == p \in DOMAIN creatures \/ \E r \in Registered : Pos(r) = p

\* the tag of cell p agrees with the records kept for p
SyncAt(p) ==
  /\ grid[p] = EMPTY <=> (~HasResource(p) /\ ~HasCreature(p))
  /\ \A ty \in {WALL, FOOD, PLANT} :
       grid[p] = ty <=> (HasResource(p) /\ resources[p].type = ty /\ ~HasCreature(p))
  /\ grid[p] = CREATURE <=> (HasCreature(p) /\ ~HasResource(p))

(* C1: at the end of every tick the tag of every cell agrees with the records
   at that cell: Empty iff no record, Wall/Food/Plant iff a resource of that
   type and no creature, Creature iff a creature and no resource. *)
C1_SyncAtTickEnd ==
  (phase = "idle" /\ ev.op = "tick") => \A p \in Cells : SyncAt(p)

(* C2: once the scheduler is constructed, no position is keyed both in the
   position index and in the resource map, and no two creatures of the
   collection stand on the same cell. *)
C2_SingleOccupancy ==
  phase # "new" =>
    /\ \A p \in Cells : ~(p \in DOMAIN creatures /\ p \in DOMAIN resources)
    /\ \A i, j \in 1 .. Len(all_creatures) :
         i # j => Pos(all_creatures[i]) # Pos(all_creatures[j])

(* C3: after every completed Simulation.update the creature collection holds
   at most MAX_CREATURES creatures, also when the run started above the cap. *)
C3_PopulationBound ==
  ev.op = "tick" => Len(all_creatures) <= MAX_CREATURES

\* a tick that started two above the cap has evicted down to it
C3_Witness ==
  ev.op = "tick" /\ ev.evicted >= 2 /\ Len(all_creatures) = MAX_CREATURES

(* C4: execute_action(REPRODUCE) on a creature whose energy is below its
   reproduction_threshold yields no offspring and changes neither its
   offspring_count nor its energy. *)
C4_ReproductionGating ==
  [][(/\ ev'.op = "execute"
      /\ ev'.action = REPRODUCE
      /\ cr[ev'.r].energy < Trait(cr[ev'.r], "reproduction_threshold"))
     => /\ ~ev'.got
        /\ cr'[ev'.r].offspring_count = cr[ev'.r].offspring_count
        /\ cr'[ev'.r].energy = cr[ev'.r].energy]_vars

\* REPRODUCE was executed below the threshold with an Empty neighbour at hand
C4_Witness ==
  /\ ev.op = "execute"
  /\ ev.action = REPRODUCE
  /\ ~ev.got
  /\ cr[ev.r].energy < Trait(cr[ev.r], "reproduction_threshold")
  /\ FreeNeighbours(S, ev.r) # {}

(* C5: when two creatures whose only Empty neighbour is one and the same cell
   both execute REPRODUCE in one tick, they do not both succeed. *)
C5_ScenarioD ==
  \A a, b \in born :
    ~(a.r # b.r /\ a.cell = b.cell /\ a.free = {a.cell} /\ b.free = {b.cell})

(* C6: after a REPRODUCE that succeeded in a creature's turn, the offspring's
   cell is tagged Creature and the offspring is registered in the position
   index and in the creature collection. *)
C6_OffspringJoinsWorld ==
  (ev.op = "turn" /\ ev.got) =>
    LET p == <<ev.child.x, ev.child.y>>
    IN /\ grid[p] = CREATURE
       /\ p \in DOMAIN creatures
       /\ cr[creatures[p]].id = ev.child.id
       /\ \E r \in Registered : cr[r].id = ev.child.id /\ Pos(r) = p

(* C7: EAT is among a creature's valid actions exactly when the creature's
   own cell holds a Food or Plant resource. *)
C7_EatAvailability ==
  phase \in {"idle", "turns"} =>
    \A r \in Registered :
      cr[r].alive =>
        (InList(_get_valid_actions(S, r), EAT)
           <=> (HasResource(Pos(r)) /\ resources[Pos(r)].type \in {FOOD, PLANT}))

(* C8: move_creature(c, x, y) returns true iff (x, y) is in bounds and tagged
   Empty, Food or Plant; when it returns false the grid, the resource map,
   the position index and the creature collection are unchanged. *)
C8_MoveRejection ==
  [][ev'.op = "move"
     => /\ ev'.ok <=> (in_bounds(ev'.at[1], ev'.at[2])
                         /\ grid[ev'.at] \in {EMPTY, FOOD, PLANT})
        /\ ~ev'.ok => UNCHANGED <<grid, resources, creatures, all_creatures>>]_vars

\* a move onto a cell occupied by another creature was rejected
C8_Witness ==
  /\ ev.op = "move"
  /\ ~ev.ok
  /\ in_bounds(ev.at[1], ev.at[2])
  /\ grid[ev.at] = CREATURE
  /\ ev.at # Pos(ev.r)

(* C9: after a successful move of a registered creature the old cell is tagged
   Empty, is not in the index and holds no record; the new cell is tagged
   Creature, maps to the creature and holds nothing but the creature. *)
C9_MoveSuccess ==
  (ev.op = "turn" /\ ev.action \in MoveActions /\ Pos(ev.r) # ev.from) =>
    /\ grid[ev.from] = EMPTY
    /\ ev.from \notin DOMAIN creatures
    /\ ~HasResource(ev.from)
    /\ grid[Pos(ev.r)] = CREATURE
    /\ Pos(ev.r) \in DOMAIN creatures
    /\ creatures[Pos(ev.r)] = ev.r
    /\ ~HasResource(Pos(ev.r))

(* C10: add_creature succeeds iff the creature's cell is in bounds and tagged
   Empty; on success the cell is tagged Creature and the creature is once in
   the position index and once in the collection; on failure the world is
   unchanged. *)
C10_AddCreature ==
  [][ev'.op = "add"
     => /\ ev'.ok <=> (in_bounds(ev'.at[1], ev'.at[2]) /\ grid[ev'.at] = EMPTY)
        /\ ev'.ok =>
             /\ grid'[ev'.at] = CREATURE
             /\ {q \in DOMAIN creatures' : creatures'[q] = ev'.r} = {ev'.at}
             /\ Cardinality({i \in 1 .. Len(all_creatures') : all_creatures'[i] = ev'.r}) = 1
             /\ Len(all_creatures') = Len(all_creatures) + 1
        /\ ~ev'.ok => UNCHANGED <<grid, resources, creatures, all_creatures>>]_vars

\* a creature was added on an Empty cell
C10_Witness ==
  ev.op = "add" /\ ev.ok /\ grid[ev.at] = CREATURE /\ ev.at \in DOMAIN creatures

\* the type of the resource keyed at p, EMPTY if none is
ResourceTypeAt(p) == IF p \in DOMAIN resources THEN resources[p].type ELSE EMPTY

(* C11: a consume_resource call for a position that keys no resource, or keys
   a Wall, or keys a Food / Plant for which the consumer's food_preference /
   plant_preference is 0, returns 0 and leaves the grid and the resource map
   as they were. *)
C11_ConsumeNoGain ==
  [][ev'.op = "consume"
     => LET ty == ResourceTypeAt(ev'.at)
            c == cr[ev'.r]
        IN (\/ ev'.at \notin DOMAIN resources
            \/ ty = WALL
            \/ ty = FOOD /\ Trait(c, "food_preference") = 0
            \/ ty = PLANT /\ Trait(c, "plant_preference") = 0)
           => ev'.gain = 0 /\ UNCHANGED <<grid, resources>>]_vars

\* a creature with food_preference 0 called consume_resource on a Food
C11_Witness ==
  /\ ev.op = "consume"
  /\ ev.gain = 0
  /\ ResourceTypeAt(ev.at) = FOOD
  /\ Trait(cr[ev.r], "food_preference") = 0

(* C12: consume_resource on a Food (Plant) returns energy_value times the
   consumer's food_preference (plant_preference); when the gain is positive
   the record leaves the resource map and the cell is tagged Creature, and a
   further call for that position gains nothing. *)
C12_ConsumeGain ==
  [][ev'.op = "consume"
     => LET ty == ResourceTypeAt(ev'.at)
            c == cr[ev'.r]
        IN /\ ty = FOOD =>
                ev'.gain * 100 = resources[ev'.at].energy_value * Trait(c, "food_preference")
           /\ ty = PLANT =>
                ev'.gain * 100 = resources[ev'.at].energy_value * Trait(c, "plant_preference")
           /\ ev'.gain > 0 =>
                /\ ev'.at \notin DOMAIN resources'
                /\ grid'[ev'.at] = CREATURE
           /\ ev'.again => ev'.gain = 0]_vars

\* the call that followed a gainful consume_resource on the same position
C12_Witness ==
  /\ ev.op = "consume"
  /\ ev.again
  /\ ev.gain = 0
  /\ grid[ev.at] = CREATURE
  /\ ev.at \notin DOMAIN resources

(* C13 as stated: a creature with energy 100, food_preference 1.0 and
   energy_efficiency 1.0 that executes EAT on a Food of energy_value 15 gets
   reward exactly 15, has energy 115, one more food_eaten, and the Food record
   is gone. *)
ScenarioA(r) ==
  /\ cr[r].energy = 10000
  /\ Trait(cr[r], "food_preference") = 100
  /\ Trait(cr[r], "energy_efficiency") = 100
  /\ ResourceTypeAt(Pos(r)) = FOOD
  /\ resources[Pos(r)].energy_value = 1500

C13_ScenarioA_Stated ==
  [][(ev'.op = "execute" /\ ev'.action = EAT /\ ScenarioA(ev'.r))
     => /\ ev'.reward = 1500
        /\ cr'[ev'.r].energy = 11500
        /\ cr'[ev'.r].food_eaten = cr[ev'.r].food_eaten + 1
        /\ Pos(ev'.r) \notin DOMAIN resources']_vars

(* C13 amended: in that scenario the reward is the base -0.1 plus the gain 15,
   that is 14.9; the energy is 115, food_eaten is one more and the Food
   record is gone. *)
C13_ScenarioA ==
  [][(ev'.op = "execute" /\ ev'.action = EAT /\ ScenarioA(ev'.r))
     => /\ ev'.reward = 1490
        /\ cr'[ev'.r].energy = 11500
        /\ cr'[ev'.r].food_eaten = cr[ev'.r].food_eaten + 1
        /\ Pos(ev'.r) \notin DOMAIN resources']_vars

\* the creature of the scenario has eaten the Food it stood on
C13_Witness ==
  /\ ev.op = "execute"
  /\ ev.action = EAT
  /\ ev.reward = 1490
  /\ cr[ev.r].energy = 11500
  /\ cr[ev.r].food_eaten = 1
  /\ Trait(cr[ev.r], "food_preference") = 100
  /\ Trait(cr[ev.r], "energy_efficiency") = 100

\* the positions under which creature object r is keyed in an index
KeysOf(index, r) == {q \in DOMAIN index : index[q] = r}

(* C14: execute_action of a MOVE_* action whose target is walkable sets the
   creature's coordinates to the target and returns -0.1 - MOVEMENT_COST*size;
   with a target that is not walkable the creature and the world are
   unchanged and the reward is -0.1.  Either way the creature is keyed in the
   position index under its coordinates and nowhere else. *)
C14_MoveExecution ==
  [][(ev'.op = "execute" /\ ev'.action \in MoveActions)
     => LET r == ev'.r
            t == MoveTarget(cr[r], ev'.action)
        IN /\ IF in_bounds(t[1], t[2]) /\ grid[t] \in {EMPTY, FOOD, PLANT}
              THEN /\ <<cr'[r].x, cr'[r].y>> = t
                   /\ ev'.reward = -10 - MOVEMENT_COST * Trait(cr[r], "size")
              ELSE /\ cr' = cr
                   /\ UNCHANGED <<grid, resources, creatures, all_creatures>>
                   /\ ev'.reward = -10
           /\ KeysOf(creatures', r) = {<<cr'[r].x, cr'[r].y>>}]_vars

\* a creature that had moved onto a resource was then refused a move
C14_Witness ==
  /\ ev.op = "execute"
  /\ ev.action \in MoveActions
  /\ ev.reward = -10
  /\ Pos(ev.r) = ev.from
  /\ HasResource(ev.from)
  /\ KeysOf(creatures, ev.r) = {ev.from}

\* the four orthogonal neighbours of cell p
Orthogonal(p) == {<<p[1], p[2] - 1>>, <<p[1], p[2] + 1>>, <<p[1] - 1, p[2]>>, <<p[1] + 1, p[2]>>}

(* C15: when execute_action(REPRODUCE) yields an offspring, the offspring
   stands on an in-bounds orthogonal neighbour of the parent that was tagged
   Empty, has the parent's offspring_energy as energy and the parent's
   generation + 1; the parent's energy is lower by REPRODUCTION_COST, its
   offspring_count is one more, and the reward is -0.1 + 20. *)
C15_ReproductionEffects ==
  [][(ev'.op = "execute" /\ ev'.action = REPRODUCE /\ ev'.got)
     => LET r == ev'.r
            p == <<ev'.child.x, ev'.child.y>>
        IN /\ p \in Orthogonal(Pos(r))
           /\ p \in Cells
           /\ grid[p] = EMPTY
           /\ ev'.child.energy = Trait(cr[r], "offspring_energy")
           /\ ev'.child.generation = cr[r].generation + 1
           /\ cr'[r].energy = cr[r].energy - REPRODUCTION_COST
           /\ cr'[r].offspring_count = cr[r].offspring_count + 1
           /\ ev'.reward = -10 + 2000]_vars

\* a parent of generation 2 has produced an offspring of generation 3
C15_Witness ==
  /\ ev.op = "execute"
  /\ ev.action = REPRODUCE
  /\ ev.got
  /\ cr[ev.r].generation = 2
  /\ ev.child.generation = 3
  /\ cr[ev.r].offspring_count = 1
  /\ <<ev.child.x, ev.child.y>> \in Orthogonal(Pos(ev.r))

(* C16: when execute_action(REPRODUCE) is called on a creature whose energy is
   below its reproduction_threshold, or that has no in-bounds orthogonal
   neighbour tagged Empty, there is no offspring, the creature objects, the
   grid, the resource map, the position index, the creature collection and
   the id counter are unchanged, and the reward is -0.1. *)
C16_FailedReproduction ==
  [][(/\ ev'.op = "execute"
      /\ ev'.action = REPRODUCE
      /\ \/ cr[ev'.r].energy < Trait(cr[ev'.r], "reproduction_threshold")
         \/ \A p \in Orthogonal(Pos(ev'.r)) : ~(p \in Cells /\ grid[p] = EMPTY))
     => /\ ~ev'.got
        /\ cr' = cr
        /\ UNCHANGED <<grid, resources, creatures, all_creatures, next_id>>
        /\ ev'.reward = -10]_vars

\* REPRODUCE was refused to a creature above its threshold with no Empty neighbour
C16_Witness ==
  /\ ev.op = "execute"
  /\ ev.action = REPRODUCE
  /\ ~ev.got
  /\ cr[ev.r].energy >= Trait(cr[ev.r], "reproduction_threshold")
  /\ \A p \in Orthogonal(Pos(ev.r)) : ~(p \in Cells /\ grid[p] = EMPTY)

(* C17: update_resources keeps every resource record it finds: the record is
   still keyed at its position, with its type, one tick older (not a new
   record in its place); and a Food or Plant it places goes to a position
   that keyed no resource and no creature. *)
C17_ResourcesUndisturbed ==
  [][ev'.op = "resources"
     => /\ \A p \in DOMAIN resources :
             /\ p \in DOMAIN resources'
             /\ resources'[p].type = resources[p].type
             /\ resources'[p].age = resources[p].age + 1
        /\ \A p \in DOMAIN resources' \ DOMAIN resources : ~HasCreature(p)
        /\ (ev'.kind # "none" /\ ev'.was_empty)
             => (ev'.at \notin DOMAIN resources /\ ~HasCreature(ev'.at))]_vars

\* the creatures of the collection that are not alive / alive
Dead == {r \in Registered : ~cr[r].alive}
Alive == {r \in Registered : cr[r].alive}

(* C18: the end of a tick leaves no creature with alive = false in the world:
   each one is out of the creature collection and of the position index and
   its cell is tagged Empty, every creature still in the collection or the
   index is alive, and total_deaths has grown by one for each of them (and
   by one for each eviction). *)
C18_DeathSweep ==
  [][ev'.op = "tick"
     => /\ \A r \in Dead :
             /\ ~InList(all_creatures', r)
             /\ r \notin {creatures'[p] : p \in DOMAIN creatures'}
             /\ grid'[Pos(r)] = EMPTY
        /\ \A i \in 1 .. Len(all_creatures') : cr'[all_creatures'[i]].alive
        /\ \A p \in DOMAIN creatures' : cr'[creatures'[p]].alive
        /\ ev'.swept = Cardinality(Dead)
        /\ stats'.total_deaths = stats.total_deaths + Cardinality(Dead) + ev'.evicted]_vars

\* a tick in which a creature died has ended, and the death was counted
C18_Witness ==
  /\ ev.op = "tick"
  /\ ev.swept >= 1
  /\ stats.total_deaths >= 1
  /\ Dead = {}
  /\ Registered # {}

(* C19: when more than MAX_CREATURES creatures are left after the sweep, the
   tick evicts exactly the excess, every evicted creature is at least as old
   as every creature that stays, and total_deaths grows by one for each
   eviction (besides the swept ones); at or below the cap nothing is evicted. *)
C19_EvictionOrder ==
  [][ev'.op = "tick"
     => LET stay == {all_creatures'[i] : i \in 1 .. Len(all_creatures')}
            evicted == Alive \ stay
        IN /\ stay \subseteq Alive
           /\ Cardinality(evicted) =
                (IF Cardinality(Alive) > MAX_CREATURES
                 THEN Cardinality(Alive) - MAX_CREATURES ELSE 0)
           /\ \A e \in evicted, k \in stay : cr[e].age >= cr[k].age
           /\ stats'.total_deaths
                = stats.total_deaths + Cardinality(Dead) + Cardinality(evicted)]_vars

\* two creatures were evicted and the youngest of the three has stayed
C19_Witness ==
  /\ ev.op = "tick"
  /\ ev.evicted = 2
  /\ ev.swept = 0
  /\ Len(all_creatures) = 1
  /\ cr[all_creatures[1]].age = 1
  /\ stats.total_deaths = 2

(* C20: Creature.update() makes the creature one tick older, lowers its energy
   by CREATURE_ENERGY_DECAY * metabolism * size and then caps it at
   CREATURE_MAX_ENERGY, and marks an alive creature not-alive exactly when the
   lowered energy is <= 0; and no step of any operation turns a creature that
   is not alive into an alive one. *)
C20_Upkeep ==
  [][/\ ev'.op = "update"
        => LET c == cr[ev'.r]
               d == cr'[ev'.r]
               e == c.energy - ((CREATURE_ENERGY_DECAY * Trait(c, "metabolism")) \div 100)
                                 * Trait(c, "size")
           IN /\ d.age = c.age + 1
              /\ d.energy = (IF e > CREATURE_MAX_ENERGY THEN CREATURE_MAX_ENERGY ELSE e)
              /\ d.energy <= CREATURE_MAX_ENERGY
              /\ c.alive => (d.alive <=> e > 0)
     /\ \A r \in DOMAIN cr \cap DOMAIN cr' : ~cr[r].alive => ~cr'[r].alive]_vars

\* update() has brought a creature's energy to exactly 0 and marked it not-alive
C20_Witness ==
  /\ ev.op = "update"
  /\ cr[ev.r].energy = 0
  /\ cr[ev.r].age = 4
  /\ ~cr[ev.r].alive

\* the creatures whose turn of the current tick is over
Updated == IF phase = "turns" THEN Registered \ todo ELSE {}

(* C21: at the end of every tick every creature in the world is alive with
   0 < energy <= CREATURE_MAX_ENERGY; and during a tick a creature that is
   alive after its per-tick update has an energy that is not below 0 (it is
   positive and at most CREATURE_MAX_ENERGY). *)
C21_EnergyInvariant ==
  /\ ev.op = "tick" =>
       \A r \in Registered :
         cr[r].alive /\ 0 < cr[r].energy /\ cr[r].energy <= CREATURE_MAX_ENERGY
  /\ \A r \in Updated :
       cr[r].alive => (0 < cr[r].energy /\ cr[r].energy <= CREATURE_MAX_ENERGY)

\* inside a tick, all turns over: one creature was capped at the maximum
C21_Witness ==
  /\ phase = "turns"
  /\ todo = {}
  /\ Cardinality(Updated) >= 2
  /\ \E r \in Updated : cr[r].alive /\ cr[r].energy = CREATURE_MAX_ENERGY /\ cr[r].age = 4

\* the cells world generation has covered with a Wall
WallCells == Border \cup ClusterWalls

(* C28: every cell that world generation covered with a Wall keeps its Wall
   tag and its Wall record, no creature of the world is positioned or indexed
   on it, and so no Food or Plant is ever keyed there. *)
C28_WallsPermanent ==
  \A p \in WallCells :
    /\ grid[p] = WALL
    /\ p \in DOMAIN resources
    /\ resources[p] = [NewWall EXCEPT !.age = resources[p].age]
    /\ p \notin DOMAIN creatures
    /\ \A r \in Registered : Pos(r) # p

\* a respawn of update_resources has sampled the Wall inside the world
C28_Witness ==
  /\ ev.op = "resources"
  /\ ev.kind # "none"
  /\ ev.at \in ClusterWalls
  /\ grid[ev.at] = WALL
  /\ resources[ev.at].age >= 1

(* C29: from one update_resources call to the next a Plant's growth_stage
   rises by 1 until it has reached max_growth, never exceeds it and never
   decreases, and its energy_value never decreases. *)
C29_PlantGrowth ==
  [][ev'.op = "resources"
     => \A p \in DOMAIN resources :
          (resources[p].type = PLANT /\ p \in DOMAIN resources'
             /\ resources'[p].type = PLANT /\ resources'[p].age = resources[p].age + 1)
          => /\ resources'[p].growth_stage
                  = (IF resources[p].growth_stage < resources[p].max_growth
                     THEN resources[p].growth_stage + 1 ELSE resources[p].growth_stage)
             /\ resources'[p].growth_stage <= resources'[p].max_growth
             /\ resources'[p].energy_value >= resources[p].energy_value]_vars

(* C30: the first component of every state tuple the scheduler builds is
   floor(energy / 20): of the state a creature decides on, and of the next
   state built after its per-tick update, also when that update has brought
   the energy to or below 0. *)
C30_EnergyLevelIsFloor ==
  [][ev'.op = "turn"
     => /\ ev'.state[1] = cr[ev'.r].energy \div 2000
        /\ ev'.next_state[1] = cr'[ev'.r].energy \div 2000]_vars

(* ---- Brain: choose_action, learn, copy ------------------------------------------------ *)
\* the values brain b stores for state s in the tables br with arrays arr
StoredIn(br, arr, b, s) == arr[br[b].q_table[s]]

\* the table of brain b as values: state -> the eight stored values
TableIn(br, arr, b) == [s \in DOMAIN br[b].q_table |-> StoredIn(br, arr, b, s)]

Seen(b, s) == s \in DOMAIN brain[b].q_table

\* the value of state s for brain b before a call: 0 for every action if unseen
ValueBefore(b, s) == IF Seen(b, s) THEN StoredIn(brain, ndarray, b, s) ELSE zeros

LargestOf(q_values) ==
  CHOOSE x \in {q_values[a] : a \in ActionIndex} : \A a \in ActionIndex : q_values[a] <= x

(* C22: choose_action returns a member of valid_actions; in the greedy branch
   it returns a valid action whose stored value for the state is the largest
   among the valid ones, the earliest such in the order of valid_actions; for
   a state not in the table it returns the first valid action, and the state
   is then a key of the table holding the zero vector. *)
C22_ChooseAction ==
  [][ev'.op = "choose" =>
       LET v == ev'.valid
           a == ev'.action
           b == ev'.b
           s == ev'.state
       IN /\ \E i \in 1 .. Len(v) : v[i] = a
          /\ (~ev'.explore /\ Seen(b, s)) =>
               LET q == StoredIn(brain, ndarray, b, s)
               IN \E i \in 1 .. Len(v) :
                    /\ v[i] = a
                    /\ \A j \in 1 .. Len(v) : q[v[j]] <= q[a]
                    /\ \A j \in 1 .. i - 1 : q[v[j]] < q[a]
          /\ (~ev'.explore /\ ~Seen(b, s)) =>
               /\ a = v[1]
               /\ s \in DOMAIN brain'[b].q_table
               /\ StoredIn(brain', ndarray', b, s) = zeros]_vars

\* a greedy choice on a stored state whose largest value is tied between two
\* valid actions, the earlier one in valid_actions having the higher number
C22_Witness ==
  /\ ev.op = "choose"
  /\ ~ev.explore
  /\ ev.seen
  /\ LET q == StoredIn(brain, ndarray, ev.b, ev.state)
     IN \E i, j \in 1 .. Len(ev.valid) :
          /\ i < j
          /\ ev.valid[i] > ev.valid[j]
          /\ ev.action = ev.valid[i]
          /\ q[ev.valid[i]] = q[ev.valid[j]]
          /\ q[ev.valid[i]] > 0

StrictlyBetween(x, a, b) == (a < x /\ x < b) \/ (b < x /\ x < a)

\* reward + gamma * max(Q[nextState]), the max taken before the update
TargetBefore(b, reward, next_state) ==
  reward + Mul(brain[b].discount_factor, LargestOf(ValueBefore(b, next_state)))

(* C23 as stated: for a learning rate strictly between 0 and 1 the new
   Q[state][action] lies strictly between its old value and the target; with
   learning rate 1 it equals the target. *)
C23_QUpdateDirection_Stated ==
  [][ev'.op = "learn" =>
       LET b == ev'.b
           old == ValueBefore(b, ev'.state)[ev'.action]
           new == StoredIn(brain', ndarray', b, ev'.state)[ev'.action]
           target == TargetBefore(b, ev'.reward, ev'.next_state)
           lr == brain[b].learning_rate
       IN /\ (0 < lr /\ lr < 100) => StrictlyBetween(new, old, target)
          /\ lr = 100 => new = target]_vars

(* C23, amended: for a learning rate strictly between 0 and 1 the new
   Q[state][action] lies strictly between its old value and the target when
   the two differ, and is unchanged when the old value already equals the
   target; with learning rate 1 it equals the target. *)
C23_QUpdateDirection ==
  [][ev'.op = "learn" =>
       LET b == ev'.b
           old == ValueBefore(b, ev'.state)[ev'.action]
           new == StoredIn(brain', ndarray', b, ev'.state)[ev'.action]
           target == TargetBefore(b, ev'.reward, ev'.next_state)
           lr == brain[b].learning_rate
       IN /\ (0 < lr /\ lr < 100) =>
               IF target = old THEN new = old ELSE StrictlyBetween(new, old, target)
          /\ lr = 100 => new = target]_vars

\* learning rate 0.5, a stored value of 3 units and a target of 1.5 units: the
\* new value is 2.25 units
C23_Witness ==
  /\ ev.op = "learn"
  /\ ev.seen
  /\ ev.state = ev.next_state
  /\ ev.action = EAT
  /\ ev.reward = 0
  /\ brain[ev.b].learning_rate = 50
  /\ StoredIn(brain, ndarray, ev.b, ev.state)[MOVE_DOWN] = 3 * QUnit
  /\ StoredIn(brain, ndarray, ev.b, ev.state)[EAT] = (9 * QUnit) \div 4

(* C24: when nextState is not in the table, learn values it 0 (Q[state][action]
   becomes old + alpha * (reward - old)), changes no other entry of the table,
   and afterwards state and nextState are keys of the table, every entry the
   call did not write being 0 for a state that was not stored before. *)
C24_LearnUnseen ==
  [][(ev'.op = "learn" /\ ~ev'.next_seen) =>
       LET b == ev'.b
           s == ev'.state
           a == ev'.action
           old == ValueBefore(b, s)[a]
       IN /\ DOMAIN brain'[b].q_table = DOMAIN brain[b].q_table \cup {s, ev'.next_state}
          /\ StoredIn(brain', ndarray', b, s)[a]
               = old + Mul(brain[b].learning_rate, ev'.reward - old)
          /\ \A s2 \in DOMAIN brain'[b].q_table : \A a2 \in ActionIndex :
               (s2 # s \/ a2 # a) =>
                 StoredIn(brain', ndarray', b, s2)[a2] = ValueBefore(b, s2)[a2]]_vars

\* a stored state learns from a reward with a next state that was not stored
C24_Witness ==
  /\ ev.op = "learn"
  /\ ev.seen
  /\ ~ev.next_seen
  /\ ev.state # ev.next_state
  /\ ev.action = EAT
  /\ ev.reward = 2 * QUnit
  /\ brain[ev.b].learning_rate = 50
  /\ StoredIn(brain, ndarray, ev.b, ev.next_state) = zeros
  /\ StoredIn(brain, ndarray, ev.b, ev.state)[EAT] = (5 * QUnit) \div 2
  /\ StoredIn(brain, ndarray, ev.b, ev.state)[MOVE_DOWN] = 3 * QUnit

\* the array objects the table of brain b refers to
ArraysOf(br, b) == {br[b].q_table[s] : s \in DOMAIN br[b].q_table}

(* C25: copy gives the child the parent's learning rate, discount and
   exploration rate and exactly the parent's set of states, leaves the parent
   brain and its table as they were, and shares no array with it; a learn
   call on one brain never changes the table of the other. *)
C25_BrainCopy ==
  [][/\ ev'.op = "copy" =>
          LET p == ev'.b
              c == ev'.child
          IN /\ brain'[c].learning_rate = brain[p].learning_rate
             /\ brain'[c].discount_factor = brain[p].discount_factor
             /\ brain'[c].exploration_rate = brain[p].exploration_rate
             /\ DOMAIN brain'[c].q_table = DOMAIN brain[p].q_table
             /\ brain'[p] = brain[p]
             /\ TableIn(brain', ndarray', p) = TableIn(brain, ndarray, p)
             /\ ArraysOf(brain', c) \cap ArraysOf(brain', p) = {}
     /\ ev'.op = "learn" =>
          \A o \in DOMAIN brain \ {ev'.b} :
            TableIn(brain', ndarray', o) = TableIn(brain, ndarray, o)]_vars

\* the child of a brain with a stored state has learnt on that state
C25_Witness ==
  /\ ev.op = "learn"
  /\ ev.b = ChildBrain
  /\ ev.seen
  /\ ev.state \in DOMAIN brain[ParentBrain].q_table
  /\ TableIn(brain, ndarray, ParentBrain) # TableIn(brain, ndarray, ChildBrain)
  /\ StoredIn(brain, ndarray, ParentBrain, ev.state) = SavedQValues

(* ---- Gene and Chromosome ---------------------------------------------------------------- *)
\* the gene records of chromosome c, by name, in the objects ch and ge
GenesIn(ch, ge, c) == [n \in DOMAIN ch[c] |-> ge[ch[c][n]]]

(* C26: the value of every Gene object, of a new, reloaded, copied or mutated
   chromosome, lies within the gene's own [min_val, max_val] after any number
   of mutate calls at any rates. *)
C26_GeneBound ==
  \A r \in DOMAIN gene : gene[r].min_val <= gene[r].value /\ gene[r].value <= gene[r].max_val

\* a mutate call at rate 1 hit all 13 genes of the copy: plant_preference, drawn
\* inside its range, is now at its max_val and another gene is inside its range
C26_Witness ==
  /\ ev.op = "mutate"
  /\ ev.c = ChildChromosome
  /\ ev.rate = 100
  /\ ev.mutations = Cardinality(GeneNames)
  /\ LET g == GenesIn(chromosome, gene, ev.c)
     IN /\ g["plant_preference"].value = g["plant_preference"].max_val
        /\ \E n \in GeneNames : g[n].min_val < g[n].value /\ g[n].value < g[n].max_val

(* C27: copy gives a chromosome with the same 13 gene names, each gene equal
   in name, value, min and max to the source's and a different object, and
   leaves the source as it was; a mutate call on one chromosome changes no
   gene of another chromosome and no cached trait. *)
C27_ChromosomeCopy ==
  [][/\ ev'.op = "copy" =>
          LET p == ev'.c
              c == ev'.child
          IN /\ DOMAIN chromosome'[c] = GeneNames
             /\ Cardinality(GeneNames) = 13
             /\ GenesIn(chromosome', gene', c) = GenesIn(chromosome, gene, p)
             /\ GenesIn(chromosome', gene', p) = GenesIn(chromosome, gene, p)
             /\ \A n, n2 \in GeneNames : chromosome'[c][n] # chromosome'[p][n2]
             /\ traits' = traits
     /\ ev'.op = "mutate" =>
          /\ \A o \in DOMAIN chromosome \ {ev'.c} :
               GenesIn(chromosome', gene', o) = GenesIn(chromosome, gene, o)
          /\ traits' = traits]_vars

\* the copy has been mutated, differs from its source, and the parent's cached
\* traits are those of the source's genes
C27_Witness ==
  /\ ev.op = "mutate"
  /\ ev.c = ChildChromosome
  /\ ev.mutations >= 1
  /\ \E n \in GeneNames :
       GenesIn(chromosome, gene, ChildChromosome)[n].value
         # GenesIn(chromosome, gene, ParentChromosome)[n].value
  /\ traits[ParentChromosome] = _cache_genetic_traits(Genome, ParentChromosome)

(* ---- identity, persistence and the scheduler -------------------------------------------- *)
(* C31: the creatures in the world have pairwise distinct ids at every time,
   also after a saved world is loaded and the scheduler is constructed on it. *)
C31_UniqueIds ==
  \A i, j \in 1 .. Len(all_creatures) :
    i # j => cr[all_creatures[i]].id # cr[all_creatures[j]].id

\* the world handed to Simulation.__init__ came from the load path: a new
\* World holds no creature before the scheduler is constructed
Loaded == all_creatures # << >>

(* C33: constructing the scheduler on a loaded world leaves the creature
   set, the grid and the birth counter as loaded: no creature is spawned and
   total_births is unchanged. *)
C33_LoadNotReseeded ==
  [][(ev'.op = "construct" /\ Loaded) =>
       /\ all_creatures' = all_creatures
       /\ creatures' = creatures
       /\ grid' = grid
       /\ stats'.total_births = stats.total_births]_vars

(* C32: saving a world and loading it back yields, for every resource, the
   same type, position, energy_value, age and (for a Plant) growth_stage. *)
C32_ResourceRoundTrip ==
  [][ev'.op = "reload" =>
       /\ DOMAIN resources' = DOMAIN resources
       /\ \A p \in DOMAIN resources :
            /\ resources'[p].type = resources[p].type
            /\ resources'[p].energy_value = resources[p].energy_value
            /\ resources'[p].age = resources[p].age
            /\ resources[p].type = PLANT =>
                 resources'[p].growth_stage = resources[p].growth_stage]_vars

(* C34: the scheduler is Running from its construction on, and no step of
   Simulation.update changes the running flag, also when the tick ends with
   no creature left. *)
C34_RunningNeverStops ==
  /\ [](phase \in {"idle", "turns"} => running)
  /\ [][ev'.op \in {"resources", "turn", "skip", "tick"} => running' = running]_vars

\* a tick has ended with deaths and no creature left, and the scheduler is Running
C34_Witness ==
  /\ ev.op = "tick"
  /\ all_creatures = << >>
  /\ stats.total_deaths >= 1
  /\ running

(* C35: every started tick runs to its end and reaches the statistics update
   exactly once, statistics.ticks growing by exactly 1 per Simulation.update;
   constructing the scheduler always ends, placing at most
   INITIAL_CREATURE_COUNT creatures, also when no sampled cell is empty. *)
C35_TickCompletion ==
  /\ (phase = "turns") ~> (phase = "idle" /\ ev.op = "tick")
  /\ [](phase = "idle" => stats.ticks = tick)
  /\ [](phase = "turns" => stats.ticks = tick - 1)
  /\ [][ev'.op = "tick" => stats'.ticks = stats.ticks + 1]_vars
  /\ [](phase = "new" => ENABLED SimulationInit)
  /\ [][ev'.op = "construct" =>
          /\ Len(all_creatures') >= Len(all_creatures)
          /\ Len(all_creatures') <= Len(all_creatures) + INITIAL_CREATURE_COUNT]_vars

\* two ticks have run to their end in a world where the seeding found no empty
\* cell and placed no creature
C35_Witness ==
  /\ ev.op = "tick"
  /\ stats.ticks = 2
  /\ grid[<<2, 2>>] = FOOD
  /\ stats.total_births = 0
  /\ all_creatures = << >>

\* the tag of the cell an action of creature r moves to allows walking
TargetWalkable(r, action) ==
  LET p == MoveTarget(cr[r], action)
  IN p \in Cells /\ grid[p] \in {EMPTY, FOOD, PLANT}

\* action is permitted to creature r in the present world
Permitted(r, action) ==
  /\ action \in {MOVE_UP, MOVE_DOWN, MOVE_LEFT, MOVE_RIGHT} => TargetWalkable(r, action)
  /\ action = REPRODUCE => cr[r].energy >= Trait(cr[r], "reproduction_threshold")
  /\ action = PHOTOSYNTHESIZE => Trait(cr[r], "sunlight_efficiency") > 30

(* C36: for every creature still to act in the tick, the valid action list
   computed on the present world, the one already changed by the creatures
   that acted before, holds a MOVE iff the adjacent cell it leads to is
   walkable, REPRODUCE iff energy >= reproduction_threshold, PHOTOSYNTHESIZE
   iff sunlight_efficiency > 0.3 and always STAY; the action a creature takes
   is on that list. *)
C36_ValidActions ==
  /\ [](phase = "turns" =>
         \A r \in todo :
           LET valid == choose_action(_get_valid_actions(S, r))
           IN /\ \A action \in {MOVE_UP, MOVE_DOWN, MOVE_LEFT, MOVE_RIGHT,
                                  REPRODUCE, PHOTOSYNTHESIZE} :
                    action \in valid <=> Permitted(r, action)
              /\ STAY \in valid)
  /\ [][ev'.op = "turn" =>
          /\ ev'.action \in choose_action(_get_valid_actions(S, ev'.r))
          /\ Permitted(ev'.r, ev'.action)]_vars

\* in the first tick the creature loaded at (1, 1) has stepped to (2, 1); the
\* creature at (3, 1) acts after it, stays, and is offered MOVE_DOWN onto the
\* Food below it but not MOVE_LEFT
C36_Witness ==
  /\ ev.op = "turn"
  /\ tick = 1
  /\ ev.from = <<3, 1>>
  /\ ev.action = STAY
  /\ grid[<<2, 1>>] = CREATURE
  /\ \E r \in Registered : Pos(r) = <<2, 1>> /\ cr[r].id = 1
  /\ MOVE_LEFT \notin choose_action(_get_valid_actions(S, ev.r))
  /\ grid[<<3, 2>>] = FOOD
  /\ MOVE_DOWN \in choose_action(_get_valid_actions(S, ev.r))

(* C37: executing PHOTOSYNTHESIZE adds SUNLIGHT_INTENSITY * sunlight_efficiency
   * 0.1 to the creature's energy and half of that to the base reward -0.1
   (sunlight_efficiency 0.5 under intensity 10: energy + 0.5, reward
   -0.1 + 0.25), and leaves the grid, the resources, the position index, the
   creature collection and every other field of every creature as they were. *)
C37_Photosynthesis ==
  [][(ev'.op = "execute" /\ ev'.action = PHOTOSYNTHESIZE) =>
      LET r == ev'.r
          eff == Trait(cr[r], "sunlight_efficiency")
          gain == (SUNLIGHT_INTENSITY * eff) \div 1000
      IN /\ cr'[r].energy = cr[r].energy + gain
         /\ ev'.reward = -10 + gain \div 2
         /\ (SUNLIGHT_INTENSITY = 1000 /\ eff = 50) => (gain = 50 /\ ev'.reward = -10 + 25)
         /\ cr' = [cr EXCEPT ![r].energy = cr'[r].energy]
         /\ UNCHANGED <<grid, resources, creatures, all_creatures, next_id, stats>>]_vars

\* a creature with sunlight_efficiency 0.5 and energy 80.00 has photosynthesized
\* under intensity 10: reward 0.15, energy 80.50
C37_Witness ==
  /\ ev.op = "execute"
  /\ ev.action = PHOTOSYNTHESIZE
  /\ SUNLIGHT_INTENSITY = 1000
  /\ Trait(cr[ev.r], "sunlight_efficiency") = 50
  /\ ev.reward = 15
  /\ cr[ev.r].energy = 8050
  /\ calls = 1

(* C38: between creature turns, every creature of the creature collection is
   the entry of the position index at its own coordinates and its cell is
   tagged Creature; every entry of the index is a creature of the collection,
   and every cell tagged Creature has an entry. *)
C38_IndexConsistent ==
  /\ \A r \in Registered :
       /\ Pos(r) \in DOMAIN creatures
       /\ creatures[Pos(r)] = r
       /\ grid[Pos(r)] = CREATURE
  /\ \A p \in DOMAIN creatures : creatures[p] \in Registered
  /\ \A p \in Cells : grid[p] = CREATURE => p \in DOMAIN creatures

\* a tick has ended in which a dead creature was swept and a surviving one
\* stands on a cell it moved to
C38_Witness ==
  /\ ev.op = "tick"
  /\ ev.swept >= 1
  /\ \E r \in Registered : Pos(r) \notin {<<1, 1>>, <<3, 1>>} \cup SpawnRegion

(* C39: in the runs driven by Simulation.update no position loses its
   resource record and no creature's food_eaten changes; no turn takes EAT,
   because the own cell of every creature still to act is tagged Creature. *)
C39_NothingEaten ==
  /\ [][ev'.op \in {"construct", "resources", "turn", "skip", "tick"} =>
          /\ DOMAIN resources \subseteq DOMAIN resources'
          /\ \A r \in DOMAIN cr \cap DOMAIN cr' : cr'[r].food_eaten = cr[r].food_eaten
          /\ ev'.op = "turn" => ev'.action # EAT]_vars
  /\ [](phase = "turns" => \A r \in todo : grid[Pos(r)] = CREATURE)

\* a creature that has never eaten has spent a turn standing on a cell whose
\* Food record is still there
C39_Witness ==
  /\ ev.op = "turn"
  /\ ev.action = STAY
  /\ Pos(ev.r) = ev.from
  /\ HasResource(ev.from)
  /\ resources[ev.from].type = FOOD
  /\ cr[ev.r].alive
  /\ cr[ev.r].food_eaten = 0

(* C40: after every tick the number of creatures in the world is
   total_births - total_deaths and statistics.creature_count is that number;
   peak_population is at least creature_count and no step lowers it.  This
   covers the runs from a new world with zeroed statistics and the runs from
   a saved world, whose statistics count the saved creatures. *)
C40_Accounting ==
  /\ [](ev.op = "tick" =>
         /\ Len(all_creatures) = stats.total_births - stats.total_deaths
         /\ stats.creature_count = Len(all_creatures)
         /\ stats.peak_population >= stats.creature_count)
  /\ [][stats'.peak_population >= stats.peak_population]_vars

\* the second tick has ended in a run from a generated world with zeroed
\* statistics: one birth, the seed with id 0, counted and alive
C40_Witness ==
  /\ ev.op = "tick"
  /\ stats.ticks = 2
  /\ stats.total_births = 1
  /\ stats.total_deaths = 0
  /\ Len(all_creatures) = 1
  /\ cr[all_creatures[1]].id = 0
  /\ stats.peak_population = 1

====
